---- MODULE Spec2Model ----
(***************************************************************************)
(* The Village: real-time monitoring pipeline.                             *)
(*                                                                         *)
(*   - AIAnalyzer (backend/ai_analyzer.py): per-call analysis context,     *)
(*     trigger policy, response parsing, responder matching.               *)
(*   - ConnectionManager (backend/websocket_manager.py): subscriber sets   *)
(*     and the call-scoped fan-out.                                        *)
(*   - the pydantic schemas of backend/models.py the analyzer builds.      *)
(*                                                                         *)
(* All coroutines run on one asyncio event loop: a coroutine runs without  *)
(* interleaving from one await to the next.                                *)
(***************************************************************************)
EXTENDS Integers, Sequences, FiniteSets, TLC

(***************************************************************************)
(* Bounds of the model                                                     *)
(***************************************************************************)
\* submissions per life of a call's context
MaxLines == 11
\* number of times one call id is cleaned up
MaxEpoch == 1

Calls == {"C1", "C2"}

(***************************************************************************)
(* Python values                                                           *)
(***************************************************************************)
\* an Optional value is a sequence of length 0 (None) or 1
None == <<>>
Some(v) == <<v>>

\* {} : the empty dict
EmptyDict == [k \in {} |-> k]

\* dict.get(key, default)
Get(d, k, default) == IF k \in DOMAIN d THEN d[k] ELSE default

\* the outcome of evaluating a piece of code: a value, or an exception
Return(v) == [raised |-> FALSE, value |-> <<v>>]
Raise(e) == [raised |-> TRUE, exc |-> e]
ValueOf(outcome) == outcome.value[1]

\* str.upper() on the speaker names of TranscriptLine.speaker
Upper(s) ==
    CASE s = "agent" -> "AGENT"
      [] s = "elder" -> "ELDER"
      [] s = "village_member" -> "VILLAGE_MEMBER"

(***************************************************************************)
(* backend/models.py : the schemas the analyzer instantiates.  A pydantic  *)
(* constructor raises ValidationError when a required field is missing or  *)
(* a value is outside its Literal / Enum; unknown keyword arguments are    *)
(* ignored.                                                                *)
(***************************************************************************)
ConcernSeverity == {"low", "moderate", "high", "critical"}
WellbeingDimension == {"emotional", "mental", "social", "physical", "cognitive"}

ConcernRequired ==
    {"id", "dimension", "type", "severity", "description", "quote",
     "detected_at", "action_required"}
ConcernOptional == {"is_pattern", "pattern_history", "actions_triggered"}

\* Concern(**kwargs)
Concern(kwargs) ==
    IF /\ ConcernRequired \subseteq DOMAIN kwargs
       /\ kwargs.severity \in ConcernSeverity
       /\ kwargs.dimension \in WellbeingDimension
    THEN Return([f \in (DOMAIN kwargs) \cap (ConcernRequired \cup ConcernOptional)
                    |-> kwargs[f]])
    ELSE Raise("ValidationError")

ProfileFactRequired == {"id", "fact", "category", "learned_at"}
ProfileFactOptional == {"context", "source_call_id"}
ProfileFactCategory ==
    {"family", "medical", "interests", "history", "preferences", "personality"}

\* ProfileFact(**kwargs)
ProfileFact(kwargs) ==
    IF /\ ProfileFactRequired \subseteq DOMAIN kwargs
       /\ kwargs.category \in ProfileFactCategory
    THEN Return([f \in (DOMAIN kwargs) \cap (ProfileFactRequired \cup ProfileFactOptional)
                    |-> kwargs[f]])
    ELSE Raise("ValidationError")

\* the fields of a VillageMember object
VillageMemberFields ==
    {"id", "name", "role", "relationship", "phone", "availability", "notes"}

\* VillageMember(**kwargs): the object keeps the declared fields only
VillageMember(kwargs) ==
    [f \in (DOMAIN kwargs) \cap VillageMemberFields |-> kwargs[f]]

\* the Literal sets of the wellbeing sub-models
LonelinessLevels == {"none", "mild", "moderate", "high"}
OverallConcernLevels == {"none", "low", "moderate", "high", "critical"}

\* EmotionalState(...) and WellbeingAssessment(...), restricted to the fields
\* that come from the provider unchecked against a default
WellbeingAssessment(mood, loneliness_level, overall_concern_level) ==
    IF /\ loneliness_level \in LonelinessLevels
       /\ overall_concern_level \in OverallConcernLevels
    THEN Return([current_mood |-> mood,
                 loneliness_level |-> loneliness_level,
                 overall_concern_level |-> overall_concern_level])
    ELSE Raise("ValidationError")

(***************************************************************************)
(* The provider's response text, as a sequence of lexical pieces.          *)
(***************************************************************************)
\* three backquotes
FENCE == "fence"
JSONWORD == "json"
WS == " "
PROSE == "prose"
TRUNCATED == "truncated"
ARRAY == "[]"

\* the JSON objects a response may carry, by the piece that spells them
Payloads ==
    [obj_empty |-> EmptyDict,
     obj_wellbeing |->
        [wellbeing |-> [mood |-> "sad", loneliness_level |-> "high",
                        overall_concern_level |-> "moderate"]],
     obj_badlevel |->
        [wellbeing |-> [mood |-> "sad", loneliness_level |-> "severe"]],
     obj_concern |->
        [concerns |-> << [type |-> "emotional", severity |-> "high",
                          description |-> "I feel so alone lately",
                          action_required |-> TRUE, reasoning |-> "isolation"] >>],
     obj_fact |->
        [profile_updates |-> << [category |-> "family", fact |-> "has a son"] >>],
     obj_action |->
        [suggested_actions |-> << [action_type |-> "call_family",
                                   urgency |-> "immediate",
                                   reason |-> "lonely",
                                   suggested_contact |-> "family"] >>],
     obj_urgent |->
        [wellbeing |-> [mood |-> "sad", loneliness_level |-> "high",
                        overall_concern_level |-> "high"],
         concerns |-> << [type |-> "emotional", severity |-> "high",
                          description |-> "I feel so alone lately",
                          action_required |-> TRUE, reasoning |-> "isolation"] >>,
         suggested_actions |-> << [action_type |-> "call_family",
                                   urgency |-> "immediate",
                                   reason |-> "lonely",
                                   suggested_contact |-> "family"] >>]]

ObjectPieces == DOMAIN Payloads

\* str.strip(): drop leading and trailing whitespace
RECURSIVE LStrip(_)
LStrip(t) == IF t # <<>> /\ Head(t) = WS THEN LStrip(Tail(t)) ELSE t
RECURSIVE RStrip(_)
RStrip(t) ==
    IF t # <<>> /\ t[Len(t)] = WS THEN RStrip(SubSeq(t, 1, Len(t) - 1)) ELSE t
Strip(t) == RStrip(LStrip(t))

StartsWithJsonFence(t) == Len(t) >= 2 /\ t[1] = FENCE /\ t[2] = JSONWORD
StartsWithFence(t) == Len(t) >= 1 /\ t[1] = FENCE
\* faulty variant: a closing fence is never found
EndsWithFence_Off(t) == FALSE

EndsWithFence(t) == Len(t) >= 1 /\ t[Len(t)] = FENCE

\* faulty variant of json.loads: text around the value is skipped
JsonLoads_Off(t) ==
    LET s == SelectSeq(t, LAMBDA p : p \notin {WS, PROSE}) IN
    IF Len(s) = 1 /\ s[1] \in ObjectPieces
    THEN Return([is_dict |-> TRUE, dict |-> Payloads[s[1]]])
    ELSE IF Len(s) = 1 /\ s[1] = ARRAY
    THEN Return([is_dict |-> FALSE, dict |-> EmptyDict])
    ELSE Raise("JSONDecodeError")

\* json.loads: one complete JSON value, whitespace around it allowed
JsonLoads(t) ==
    LET s == Strip(t) IN
    IF Len(s) = 1 /\ s[1] \in ObjectPieces
    THEN Return([is_dict |-> TRUE, dict |-> Payloads[s[1]]])
    ELSE IF Len(s) = 1 /\ s[1] = ARRAY
    THEN Return([is_dict |-> FALSE, dict |-> EmptyDict])
    ELSE Raise("JSONDecodeError")

\* what _parse_gemini_response returns on a JSONDecodeError
ParseFallback ==
    [wellbeing |-> EmptyDict, concerns |-> <<>>, profile_updates |-> <<>>,
     suggested_actions |-> <<>>]

\* AIAnalyzer._parse_gemini_response; response_text is an Optional text
ParseGeminiResponse(response_text) ==
    IF response_text = None
    THEN Raise("AttributeError")
    ELSE
      LET c0 == Strip(response_text[1])
          c1 == IF StartsWithJsonFence(c0) THEN SubSeq(c0, 3, Len(c0)) ELSE c0
          c2 == IF StartsWithFence(c1) THEN SubSeq(c1, 2, Len(c1)) ELSE c1
          c3 == IF EndsWithFence(c2) THEN SubSeq(c2, 1, Len(c2) - 1) ELSE c2
          loaded == JsonLoads(Strip(c3))
      IN IF loaded.raised
         THEN Return([is_dict |-> TRUE, dict |-> ParseFallback])
         ELSE loaded

\* analysis.get(key, default) on whatever json.loads returned
AnalysisGet(analysis, k, default) ==
    IF analysis.is_dict THEN Return(Get(analysis.dict, k, default))
    ELSE Raise("AttributeError")

(***************************************************************************)
(* Conversion of the parsed sections                                       *)
(***************************************************************************)
\* AIAnalyzer._create_wellbeing_assessment
CreateWellbeingAssessment(call_id, wellbeing_data) ==
    IF DOMAIN wellbeing_data = {}
    THEN Return(None)
    ELSE LET a == WellbeingAssessment(
                     Get(wellbeing_data, "mood", "neutral"),
                     Get(wellbeing_data, "loneliness_level", "none"),
                     Get(wellbeing_data, "overall_concern_level", "none"))
         IN IF a.raised THEN a ELSE Return(Some(ValueOf(a)))

\* the keyword arguments _detect_concerns passes to Concern(...)
ConcernKwargs(call_id, concern_data) ==
    [id |-> "uuid4",
     call_session_id |-> call_id,
     type |-> Get(concern_data, "type", "general"),
     severity |-> Get(concern_data, "severity", "medium"),
     description |-> Get(concern_data, "description", ""),
     detected_at |-> "utcnow",
     action_required |-> Get(concern_data, "action_required", FALSE),
     action_taken |-> None,
     resolved |-> FALSE]

\* AIAnalyzer._detect_concerns: the loop from the i-th element on
RECURSIVE DetectConcernsFrom(_, _, _, _)
DetectConcernsFrom(call_id, concerns_data, i, concerns) ==
    IF i > Len(concerns_data)
    THEN Return(concerns)
    ELSE LET concern == Concern(ConcernKwargs(call_id, concerns_data[i]))
         IN IF concern.raised THEN concern
            ELSE DetectConcernsFrom(call_id, concerns_data, i + 1,
                                    Append(concerns, ValueOf(concern)))

DetectConcerns(call_id, concerns_data, context) ==
    DetectConcernsFrom(call_id, concerns_data, 1, <<>>)

\* the keyword arguments _extract_profile_facts passes to ProfileFact(...)
ProfileFactKwargs(call_id, update) ==
    [id |-> "uuid4",
     call_session_id |-> call_id,
     category |-> Get(update, "category", "general"),
     fact |-> Get(update, "fact", ""),
     detected_at |-> "utcnow",
     confidence |-> 8]

\* AIAnalyzer._extract_profile_facts: the loop from the i-th element on
RECURSIVE ExtractProfileFactsFrom(_, _, _, _)
ExtractProfileFactsFrom(call_id, profile_updates, i, facts) ==
    IF i > Len(profile_updates)
    THEN Return(facts)
    ELSE LET fact == ProfileFact(ProfileFactKwargs(call_id, profile_updates[i]))
         IN IF fact.raised THEN fact
            ELSE ExtractProfileFactsFrom(call_id, profile_updates, i + 1,
                                         Append(facts, ValueOf(fact)))

ExtractProfileFacts(call_id, profile_updates) ==
    ExtractProfileFactsFrom(call_id, profile_updates, 1, <<>>)

(***************************************************************************)
(* Responder matching                                                      *)
(***************************************************************************)
\* reading obj.name on a pydantic object
Attr(obj, name) ==
    IF name \in DOMAIN obj THEN Return(obj[name]) ELSE Raise("AttributeError")

\* str.lower() on role names
Lower(s) ==
    CASE s \in {"Family", "FAMILY"} -> "family"
      [] s \in {"Neighbor", "NEIGHBOR"} -> "neighbor"
      [] s \in {"Medical", "MEDICAL"} -> "medical"
      [] s \in {"Volunteer", "VOLUNTEER"} -> "volunteer"
      [] OTHER -> s

\* `a in b` on the role names of VillageMember.role and of role_priority:
\* none of them is a proper substring of another
Contains(a, b) == a = b

\* role_priority.get(action_type, [])
PreferredRoles(action_type) ==
    CASE action_type = "call_family" -> <<"family">>
      [] action_type = "call_medical" -> <<"medical", "volunteer">>
      [] action_type = "call_neighbor" -> <<"neighbor", "friend">>
      [] action_type = "call_volunteer" -> <<"volunteer", "neighbor">>
      [] OTHER -> <<>>

\* the fallback loop of _match_village_member from the j-th member on
RECURSIVE MatchAnyFrom(_, _)
MatchAnyFrom(village, j) ==
    IF j > Len(village) THEN Return(None)
    ELSE LET available == Attr(village[j], "available")
         IN IF available.raised THEN available
            ELSE IF ValueOf(available) THEN Return(Some(village[j]))
            ELSE MatchAnyFrom(village, j + 1)

\* the nested loop of _match_village_member from (i-th role, j-th member) on
RECURSIVE MatchPreferredFrom(_, _, _, _)
MatchPreferredFrom(village, roles, i, j) ==
    IF i > Len(roles) THEN MatchAnyFrom(village, 1)
    ELSE IF j > Len(village) THEN MatchPreferredFrom(village, roles, i + 1, 1)
    ELSE IF Contains(Lower(roles[i]), Lower(village[j].role))
         THEN LET available == Attr(village[j], "available")
              IN IF available.raised THEN available
                 ELSE IF ValueOf(available) THEN Return(Some(village[j]))
                 ELSE MatchPreferredFrom(village, roles, i, j + 1)
         ELSE MatchPreferredFrom(village, roles, i, j + 1)

\* AIAnalyzer._match_village_member: an Optional member, or an exception
MatchVillageMember(elder, action_type, suggested_contact) ==
    IF elder.village = <<>> THEN Return(None)
    ELSE MatchPreferredFrom(elder.village, PreferredRoles(action_type), 1, 1)

\* AIAnalyzer._suggest_village_actions: the loop from the i-th suggestion on
RECURSIVE SuggestVillageActionsFrom(_, _, _, _)
SuggestVillageActionsFrom(suggested_actions, elder, i, actions) ==
    IF i > Len(suggested_actions)
    THEN Return(actions)
    ELSE LET suggestion == suggested_actions[i]
             action_type == Get(suggestion, "action_type", "")
             suggested_contact == Get(suggestion, "suggested_contact", "")
             target_member == MatchVillageMember(elder, action_type, suggested_contact)
         IN IF target_member.raised THEN target_member
            ELSE IF ValueOf(target_member) # None
            THEN SuggestVillageActionsFrom(suggested_actions, elder, i + 1,
                    Append(actions,
                       [type |-> action_type,
                        urgency |-> Get(suggestion, "urgency", "routine"),
                        reason |-> Get(suggestion, "reason", ""),
                        target_member |-> ValueOf(target_member)[1],
                        estimated_response_time |->
                            IF Get(suggestion, "urgency", "None") = "immediate"
                            THEN 78 ELSE 300]))
            ELSE SuggestVillageActionsFrom(suggested_actions, elder, i + 1, actions)

SuggestVillageActions(suggested_actions, elder) ==
    SuggestVillageActionsFrom(suggested_actions, elder, 1, <<>>)

(***************************************************************************)
(* analyze_transcript_chunk                                                *)
(***************************************************************************)
\* the result returned for "no insight"
EmptyResult ==
    [wellbeing_update |-> None, concerns |-> <<>>, profile_facts |-> <<>>,
     suggested_actions |-> <<>>]

\* a fresh entry of analysis_context
NewContext ==
    [transcript_history |-> <<>>,
     detected_concerns |-> <<>>,
     wellbeing_indicators |->
        [mood |-> None, energy |-> None, cognitive_clarity |-> None,
         social_engagement |-> None]]

\* the context entry made of a TranscriptLine
HistoryEntry(line) ==
    [speaker |-> line.speaker, text |-> line.text, timestamp |-> line.timestamp]

\* faulty variant: the entries are made of one shared dict, so that a line
\* appended for one call is in the history of every call
ContextWithLine_Off(contexts, call_id, line) ==
    [k \in DOMAIN contexts \cup {call_id} |->
        [(IF k \in DOMAIN contexts THEN contexts[k] ELSE NewContext)
            EXCEPT !.transcript_history = Append(@, HistoryEntry(line))]]

\* lines 52-71: analysis_context after the entry of call_id has been created
\* if it was missing and the line has been appended to its history
ContextWithLine(contexts, call_id, line) ==
    [k \in DOMAIN contexts \cup {call_id} |->
        IF k = call_id
        THEN [(IF k \in DOMAIN contexts THEN contexts[k] ELSE NewContext)
                EXCEPT !.transcript_history = Append(@, HistoryEntry(line))]
        ELSE contexts[k]]

\* faulty variant: the early return is taken below 2 lines
EnoughContext_Off(transcript_history) == Len(transcript_history) >= 2

\* len(context["transcript_history"]) < 3 is the early return
EnoughContext(transcript_history) == Len(transcript_history) >= 3

\* faulty variant: transcript_history[:10]
LastExchanges_Off(transcript_history) ==
    SubSeq(transcript_history, 1,
           IF Len(transcript_history) < 10 THEN Len(transcript_history) ELSE 10)

\* transcript_history[-10:]
LastExchanges(transcript_history) ==
    SubSeq(transcript_history,
           IF Len(transcript_history) > 10 THEN Len(transcript_history) - 9 ELSE 1,
           Len(transcript_history))

\* AIAnalyzer._build_analysis_prompt: the parts of the prompt that vary
BuildAnalysisPrompt(elder, transcript_history) ==
    [name |-> elder.name,
     baseline |-> elder.typical_mood,
     transcript_text |->
        [i \in 1..Len(LastExchanges(transcript_history)) |->
            [speaker |-> Upper(LastExchanges(transcript_history)[i].speaker),
             text |-> LastExchanges(transcript_history)[i].text]]]

\* faulty variant: each section is converted under its own handler, so a
\* section that fails is left empty and the other sections are returned
ConvertResponse_Off(call_id, elder, context, response_text) ==
    LET analysis == ParseGeminiResponse(response_text) IN
    IF analysis.raised \/ ~ValueOf(analysis).is_dict
    THEN Raise("AttributeError") ELSE
    LET wellbeing_update == CreateWellbeingAssessment(call_id,
                        ValueOf(AnalysisGet(ValueOf(analysis), "wellbeing", EmptyDict)))
        concerns == DetectConcerns(call_id,
                        ValueOf(AnalysisGet(ValueOf(analysis), "concerns", <<>>)),
                        context)
        profile_facts == ExtractProfileFacts(call_id,
                        ValueOf(AnalysisGet(ValueOf(analysis), "profile_updates", <<>>)))
        suggested_actions == SuggestVillageActions(
                        ValueOf(AnalysisGet(ValueOf(analysis), "suggested_actions", <<>>)),
                        elder)
    IN Return([wellbeing_update |-> IF wellbeing_update.raised THEN None
                                    ELSE ValueOf(wellbeing_update),
               concerns |-> IF concerns.raised THEN <<>> ELSE ValueOf(concerns),
               profile_facts |-> IF profile_facts.raised THEN <<>>
                                 ELSE ValueOf(profile_facts),
               suggested_actions |-> IF suggested_actions.raised THEN <<>>
                                     ELSE ValueOf(suggested_actions)])

\* lines 99-131: the body of the try block after the provider has answered
ConvertResponse(call_id, elder, context, response_text) ==
    LET analysis == ParseGeminiResponse(response_text) IN
    IF analysis.raised THEN analysis ELSE
    LET wellbeing_data == AnalysisGet(ValueOf(analysis), "wellbeing", EmptyDict) IN
    IF wellbeing_data.raised THEN wellbeing_data ELSE
    LET wellbeing_update == CreateWellbeingAssessment(call_id, ValueOf(wellbeing_data)) IN
    IF wellbeing_update.raised THEN wellbeing_update ELSE
    LET concerns == DetectConcerns(call_id,
                        ValueOf(AnalysisGet(ValueOf(analysis), "concerns", <<>>)),
                        context) IN
    IF concerns.raised THEN concerns ELSE
    LET profile_facts == ExtractProfileFacts(call_id,
                        ValueOf(AnalysisGet(ValueOf(analysis), "profile_updates", <<>>))) IN
    IF profile_facts.raised THEN profile_facts ELSE
    LET suggested_actions == SuggestVillageActions(
                        ValueOf(AnalysisGet(ValueOf(analysis), "suggested_actions", <<>>)),
                        elder) IN
    IF suggested_actions.raised THEN suggested_actions ELSE
    Return([wellbeing_update |-> ValueOf(wellbeing_update),
            concerns |-> ValueOf(concerns),
            profile_facts |-> ValueOf(profile_facts),
            suggested_actions |-> ValueOf(suggested_actions)])

\* faulty variant: no except clause, the exception propagates
ExceptException_Off(outcome) == outcome

\* lines 133-140: except Exception returns the empty result
ExceptException(outcome) ==
    IF outcome.raised THEN Return(EmptyResult) ELSE outcome

(***************************************************************************)
(* State                                                                   *)
(***************************************************************************)
VARIABLES
    \* AIAnalyzer.model is set: GOOGLE_API_KEY was present at construction
    model,
    \* AIAnalyzer.analysis_context: a dict keyed by call id
    analysis_context,
    \* the generate_content calls that have not returned, one record per
    \* coroutine suspended in line 95
    outstanding,
    \* per call id: lines submitted since its context was last created
    nsub,
    \* per call id: how often its context has been cleaned up
    epoch,
    \* per call id: provider invocations since its context was last created
    ninv,
    \* the last operation of the analyzer that returned, with its outcome
    last

avars == <<model, analysis_context, outstanding, nsub, epoch, ninv, last>>

VARIABLES
    \* ConnectionManager.active_connections
    active_connections,
    \* ConnectionManager.call_subscriptions: a dict from call id to a set
    call_subscriptions,
    \* per publishing task: the frame of its publishing coroutine
    publish,
    \* the connections a publish has disconnected after a failed send and
    \* that have not connected or subscribed since
    unsubscribed,
    \* the tasks that have made a publish call, in the order of their latest
    \* calls
    started

hvars == <<active_connections, call_subscriptions, publish, unsubscribed,
           started>>

VARIABLES
    \* what the roster of a call of _match_village_member is created from
    roster,
    \* the other arguments of the call
    action_type,
    suggested_contact,
    \* whether the call has been made, and its outcome
    called,
    matched

rvars == <<roster, action_type, suggested_contact, called, matched>>

VARIABLES
    \* a payload as the provider may spell it, and the same payload inside a
    \* markdown code fence
    bare,
    fenced,
    \* what _parse_gemini_response made of the two, once it has been called
    parsed

pvars == <<bare, fenced, parsed>>

VARIABLES
    \* table "calls" of the database: room name -> row
    calls_table,
    \* the invocations of start_call, by the room each has made
    start_calls,
    \* the rooms an outbound call was requested for
    placed,
    \* the rooms whose agent has run its shutdown callback
    shutdown_saved,
    \* the rooms with a background copy task
    copy_tasks,
    \* the reply the last step has produced, if it produced one
    reply,
    \* the environment variables start_call reads
    environ

cvars == <<calls_table, start_calls, placed, shutdown_saved, copy_tasks, reply, environ>>

VARIABLES
    \* the escalation actions, by action id
    village_actions,
    \* the messages handed to the hub, in order
    emitted

dvars == <<village_actions, emitted>>

\* the variables of the other parts of the program
xvars == <<pvars, cvars, dvars>>

vars == <<avars, hvars, rvars, xvars>>

\* the subjects submissions are made for
FamilyMember ==
    VillageMember([id |-> "A", name |-> "Ann", role |-> "family",
                   relationship |-> "daughter", phone |-> "+1555"])
\* the Elder a call is about (CallSession.elder_id)
ElderOf ==
    [C1 |-> [id |-> "e1", name |-> "Margaret", typical_mood |-> "cheerful",
             village |-> <<FamilyMember>>],
     C2 |-> [id |-> "e2", name |-> "Walter", typical_mood |-> "quiet",
             village |-> <<>>]]

\* the k-th TranscriptLine submitted to call c in its e-th life
SpeakerOf(k) == IF k % 2 = 1 THEN "elder" ELSE "agent"
Line(c, e, k) ==
    [id |-> <<c, e, k>>, speaker |-> SpeakerOf(k), speaker_name |-> SpeakerOf(k),
     text |-> <<c, e, k>>, timestamp |-> k]

\* what the provider may answer
Text(t) == [text |-> Some(t)]
Responses ==
    { Text(<<p>>) : p \in ObjectPieces } \cup
    { Text(<<FENCE, JSONWORD, WS, "obj_wellbeing", WS, FENCE>>),
      Text(<<FENCE, WS, "obj_wellbeing", WS, FENCE>>),
      Text(<<PROSE, "obj_wellbeing", PROSE>>),
      Text(<<TRUNCATED>>),
      Text(<<ARRAY>>),
      Text(<<>>),
      [text |-> None] }

NoOp ==
    [op |-> "none", call |-> "", prompt |-> None, invoked |-> FALSE,
     response |-> None, provider_raised |-> FALSE, existed |-> FALSE,
     raised |-> FALSE, result |-> EmptyResult]

InitAnalyzer ==
    /\ model \in BOOLEAN
    /\ analysis_context = EmptyDict
    /\ outstanding = {}
    /\ nsub = [c \in Calls |-> 0]
    /\ epoch = [c \in Calls |-> 0]
    /\ ninv = [c \in Calls |-> 0]
    /\ last = NoOp

(***************************************************************************)
(* Operations of the analyzer                                              *)
(***************************************************************************)
\* faulty variant: the provider call is awaited and other coroutines run
\* with nothing serializing the invocations of one call
LoopFree_Off(calls) == TRUE

\* generate_content is a plain (blocking) call inside the coroutine: while
\* it has not returned, the event loop runs nothing else
LoopFree(calls) == calls = {}

\* lines 50-98: from the call to the provider invocation or an early return
AnalyzeTranscriptChunk(c, elder) ==
    /\ LoopFree(outstanding)
    /\ nsub[c] < MaxLines
    /\ LET new_transcript_line == Line(c, epoch[c], nsub[c] + 1)
           contexts == ContextWithLine(analysis_context, c, new_transcript_line)
           context == contexts[c]
           prompt == BuildAnalysisPrompt(elder, context.transcript_history)
           returned(p) == [NoOp EXCEPT !.op = "submit", !.call = c, !.prompt = p]
       IN /\ analysis_context' = contexts
          /\ nsub' = [nsub EXCEPT ![c] = @ + 1]
          /\ IF ~EnoughContext(context.transcript_history)
             THEN /\ last' = returned(None)
                  /\ UNCHANGED <<outstanding, ninv>>
             ELSE IF ~model
             THEN /\ last' = returned(Some(prompt))
                  /\ UNCHANGED <<outstanding, ninv>>
             ELSE /\ outstanding' = outstanding \cup
                        {[call |-> c, elder |-> elder, contents |-> prompt,
                          stalled |-> FALSE]}
                  /\ ninv' = [ninv EXCEPT ![c] = @ + 1]
                  /\ UNCHANGED last
    /\ UNCHANGED <<model, epoch>>
    /\ UNCHANGED <<hvars, rvars, xvars>>

\* lines 95-131: the provider answers; the response is converted and returned
ProviderReturns(c, response) ==
    \E o \in outstanding :
        /\ o.call = c
        /\ ~o.stalled
        /\ outstanding' = outstanding \ {o}
        /\ LET outcome == ExceptException(
                              ConvertResponse(c, o.elder,
                                  IF c \in DOMAIN analysis_context
                                  THEN analysis_context[c] ELSE NewContext,
                                  response.text))
           IN last' = [NoOp EXCEPT
                        !.op = "submit", !.call = c,
                        !.prompt = Some(o.contents), !.invoked = TRUE,
                        !.response = Some(response),
                        !.raised = outcome.raised,
                        !.result = IF outcome.raised THEN EmptyResult
                                   ELSE ValueOf(outcome)]
        /\ UNCHANGED <<model, analysis_context, nsub, epoch, ninv>>
        /\ UNCHANGED <<hvars, rvars, xvars>>

\* lines 95-98, 133-140: the provider call raises
ProviderRaises(c) ==
    \E o \in outstanding :
        /\ o.call = c
        /\ ~o.stalled
        /\ outstanding' = outstanding \ {o}
        /\ last' = [NoOp EXCEPT
                        !.op = "submit", !.call = c,
                        !.prompt = Some(o.contents), !.invoked = TRUE,
                        !.provider_raised = TRUE,
                        !.raised = ExceptException(Raise("ProviderError")).raised]
        /\ UNCHANGED <<model, analysis_context, nsub, epoch, ninv>>
        /\ UNCHANGED <<hvars, rvars, xvars>>

\* the provider never answers this invocation: line 95 carries no timeout
ProviderStalls(c) ==
    \E o \in outstanding :
        /\ o.call = c
        /\ ~o.stalled
        /\ outstanding' = (outstanding \ {o}) \cup {[o EXCEPT !.stalled = TRUE]}
        /\ UNCHANGED <<model, analysis_context, nsub, epoch, ninv, last>>
        /\ UNCHANGED <<hvars, rvars, xvars>>

\* del d[c]
Del(d, c) ==
    IF c \in DOMAIN d THEN Return([k \in DOMAIN d \ {c} |-> d[k]])
    ELSE Raise("KeyError")

\* faulty variant: the entry is deleted without the membership test
ContextAfterCleanup_Off(context, c) == Del(context, c)

\* analysis_context after cleanup_call_context(call_id), or an exception
ContextAfterCleanup(context, c) ==
    IF c \in DOMAIN context THEN Del(context, c) ELSE Return(context)

\* AIAnalyzer.cleanup_call_context
CleanupCallContext(c) ==
    /\ LoopFree(outstanding)
    /\ c \in DOMAIN analysis_context => epoch[c] < MaxEpoch
    /\ LET outcome == ContextAfterCleanup(analysis_context, c)
       IN /\ analysis_context' =
                IF outcome.raised THEN analysis_context ELSE ValueOf(outcome)
          /\ last' = [NoOp EXCEPT !.op = "cleanup", !.call = c,
                                  !.existed = c \in DOMAIN analysis_context,
                                  !.raised = outcome.raised]
    /\ IF c \in DOMAIN analysis_context
       THEN /\ epoch' = [epoch EXCEPT ![c] = @ + 1]
            /\ nsub' = [nsub EXCEPT ![c] = 0]
            /\ ninv' = [ninv EXCEPT ![c] = 0]
       ELSE UNCHANGED <<epoch, nsub, ninv>>
    /\ UNCHANGED <<model, outstanding>>
    /\ UNCHANGED <<hvars, rvars, xvars>>

NextAnalyzer ==
    \/ \E c \in Calls : AnalyzeTranscriptChunk(c, ElderOf[c])
    \/ \E c \in Calls, response \in Responses : ProviderReturns(c, response)
    \/ \E c \in Calls : ProviderRaises(c)
    \/ \E c \in Calls : ProviderStalls(c)
    \/ \E c \in Calls : CleanupCallContext(c)

(***************************************************************************)
(* ConnectionManager (backend/websocket_manager.py)                        *)
(***************************************************************************)
\* the WebSocket objects
Handles == {"w1", "w2", "w3"}
\* the keys connections subscribe under
Keys == {"C1", "C2"}
\* the tasks that publish
Publishers == {"p1"}
\* the tasks that publish when publishes are made concurrently
Tasks == {"p1", "p2"}

\* the frame of a coroutine that is not inside a publish. kind tells the
\* loop the coroutine is in: "call" for broadcast_to_call, "all" for
\* broadcast, where subscribers holds what active_connections held when the
\* loop began; room_name is the key emit_* has still to publish to.
\* attempted, failed, twice, stayed and missed record, for the event being
\* published: the connections send_json was called on, those whose send
\* raised, those it was called on more than once, those that have been in
\* the iterated set since the loop began, and whether the loop ended
\* without a send to one of these. message is the event an emit_* helper
\* publishes, where the helper is modelled.
IdleFrame ==
    [pc |-> "idle", kind |-> "call", call_id |-> "", room_name |-> None,
     message |-> None,
     subscribers |-> {}, remaining |-> {},
     connection |-> None, disconnected |-> {},
     attempted |-> {}, failed |-> {}, raised |-> FALSE,
     twice |-> {}, stayed |-> {}, missed |-> FALSE]

InitHub ==
    /\ active_connections = {}
    /\ call_subscriptions = EmptyDict
    /\ publish = [p \in Tasks |-> IdleFrame]
    /\ unsubscribed = {}
    /\ started = <<>>

\* ConnectionManager.connect
Connect(websocket) ==
    /\ active_connections' = active_connections \cup {websocket}
    /\ unsubscribed' = unsubscribed \ {websocket}
    /\ UNCHANGED <<call_subscriptions, publish, started>>
    /\ UNCHANGED <<avars, rvars, xvars>>

\* faulty variant: the connection stays in the subscriber sets
DiscardFromAll_Off(subscriptions, websockets) == subscriptions

\* the subscriptions after disconnect(websocket), lines 30-31
DiscardFromAll(subscriptions, websockets) ==
    [k \in DOMAIN subscriptions |-> subscriptions[k] \ websockets]

\* faulty variant: set.remove, which raises KeyError for a missing element
Discard_Off(set, element) ==
    IF element \in set THEN Return(set \ {element}) ELSE Raise("KeyError")

\* set.discard
Discard(set, element) == Return(set \ {element})

\* ConnectionManager.disconnect, when it returns
Disconnect(websocket) ==
    /\ ~Discard(active_connections, websocket).raised
    /\ active_connections' = ValueOf(Discard(active_connections, websocket))
    /\ call_subscriptions' = DiscardFromAll(call_subscriptions, {websocket})
    /\ publish' = [p \in Tasks |->
                     [publish[p] EXCEPT !.stayed = @ \ {websocket}]]
    /\ UNCHANGED <<unsubscribed, started>>
    /\ UNCHANGED <<avars, rvars, xvars>>

\* ConnectionManager.subscribe_to_call
SubscribeToCall(websocket, call_id) ==
    /\ call_subscriptions' =
          [k \in DOMAIN call_subscriptions \cup {call_id} |->
              IF k = call_id
              THEN (IF k \in DOMAIN call_subscriptions
                    THEN call_subscriptions[k] ELSE {}) \cup {websocket}
              ELSE call_subscriptions[k]]
    /\ unsubscribed' = unsubscribed \ {websocket}
    /\ UNCHANGED <<active_connections, publish, started>>
    /\ UNCHANGED <<avars, rvars, xvars>>

\* faulty variant: the send is not guarded, its exception ends the publish
HandleSendError_Off(frame) == [frame EXCEPT !.raised = TRUE]

\* lines 57-59 and 86-89: the except clause around one send
HandleSendError(frame) ==
    [frame EXCEPT !.disconnected = @ \cup {frame.connection[1]}]

\* the sets of the manager a coroutine works on between two suspensions;
\* dropped holds the connections a publish has disconnected
HubState(active, subscriptions, dropped) ==
    [active |-> active, subscriptions |-> subscriptions, dropped |-> dropped]

\* lines 61-63 and 91-93: the connections whose send failed are disconnected
CleanUp(frame, hub) ==
    HubState(hub.active \ frame.disconnected,
             DiscardFromAll(hub.subscriptions, frame.disconnected),
             hub.dropped \cup frame.disconnected)

\* a loop over connections is left
EndLoop(frame) ==
    [frame EXCEPT !.connection = None, !.remaining = {}, !.stayed = {},
                  !.missed = @ \/ (frame.stayed \ frame.attempted # {})]

\* the publish returns to its caller, or raises into it
Returned(frame) == [frame EXCEPT !.pc = "done", !.room_name = None]

\* the loop suspends in connection.send_json(message), lines 56 and 84
Suspended(frame, connection) ==
    [frame EXCEPT !.pc = "sending",
                  !.connection = Some(connection),
                  !.remaining = @ \ {connection},
                  !.attempted = @ \cup {connection},
                  !.twice = @ \cup ({connection} \cap frame.attempted)]

\* one way a coroutine can run on to its next suspension or to its end
Outcome(frame, hub) == [frame |-> frame, hub |-> hub]

\* faulty variant: the subscription entry is read without the test of line 73
SubscribersOf_Off(subscriptions, call_id) ==
    IF call_id \notin DOMAIN subscriptions
    THEN Raise("KeyError")
    ELSE Return(Some(subscriptions[call_id]))

\* lines 73-78: no entry for the call id, or a copy of its subscriber set
SubscribersOf(subscriptions, call_id) ==
    IF call_id \notin DOMAIN subscriptions
    THEN Return(None)
    ELSE Return(Some(subscriptions[call_id]))

\* faulty variant: the loop iterates the subscriber set itself, not a copy
Remaining_Off(frame, hub) ==
    IF frame.call_id \in DOMAIN hub.subscriptions
    THEN hub.subscriptions[frame.call_id] \ frame.attempted
    ELSE {}

\* lines 78 and 81: the loop iterates the copy made when the publish began;
\* the connections of the copy it has not yet taken
Remaining(frame, hub) == frame.remaining

RECURSIVE AfterBroadcastToCall(_, _)
RECURSIVE StartBroadcastToCall(_, _)
RECURSIVE ContinueBroadcastToCall(_, _)

\* lines 81-95: the loop over the copy goes on to its next connection and
\* suspends in its send, or ends; then the failed connections are
\* disconnected and broadcast_to_call returns
ContinueBroadcastToCall(frame, hub) ==
    IF frame.raised
    THEN {Outcome(Returned(EndLoop(frame)), hub)}
    ELSE IF Remaining(frame, hub) # {}
    THEN {Outcome(Suspended(frame, connection), hub) :
             connection \in Remaining(frame, hub)}
    ELSE AfterBroadcastToCall(EndLoop(frame), CleanUp(frame, hub))

\* lines 65-79: broadcast_to_call(frame.call_id, message) up to its loop
StartBroadcastToCall(frame, hub) ==
    LET found == SubscribersOf(hub.subscriptions, frame.call_id)
    IN  IF found.raised
        THEN {Outcome(Returned([frame EXCEPT !.raised = TRUE]), hub)}
        ELSE IF ValueOf(found) = None
        THEN AfterBroadcastToCall(frame, hub)
        ELSE ContinueBroadcastToCall(
                [frame EXCEPT !.subscribers = ValueOf(found)[1],
                              !.remaining = ValueOf(found)[1],
                              !.stayed = ValueOf(found)[1],
                              !.disconnected = {}],
                hub)

\* lines 138-141, 159-160, 169-170, 179-180: after broadcast_to_call has
\* returned, emit_* publishes to room_name as well, or returns
AfterBroadcastToCall(frame, hub) ==
    IF frame.room_name # None /\ frame.room_name # Some(frame.call_id)
    THEN StartBroadcastToCall(
            [frame EXCEPT !.call_id = frame.room_name[1],
                          !.room_name = None],
            hub)
    ELSE {Outcome(Returned(frame), hub)}

\* lines 54-63: the for statement takes the next element of
\* active_connections itself. The set iterator raises RuntimeError when the
\* size of the set is not the size it had when the loop began; when the set
\* has the same size but other elements, the elements it still yields are
\* not determined
ContinueBroadcast(frame, hub) ==
    IF frame.raised
    THEN {Outcome(Returned(EndLoop(frame)), hub)}
    ELSE IF Cardinality(hub.active) # Cardinality(frame.subscribers)
    THEN {Outcome(Returned(EndLoop([frame EXCEPT !.raised = TRUE])), hub)}
    ELSE LET unvisited == hub.active \ frame.attempted
             sends == {Outcome(Suspended(frame, connection), hub) :
                          connection \in unvisited}
             ends == {Outcome(Returned(EndLoop(frame)), CleanUp(frame, hub))}
         IN  IF unvisited = {} THEN ends
             ELSE IF hub.active = frame.subscribers THEN sends
             ELSE sends \cup ends

\* the coroutine of task p runs from where it is to its next suspension
Run(p, outcomes) ==
    \E o \in outcomes :
        /\ publish' = [publish EXCEPT ![p] = o.frame]
        /\ active_connections' = o.hub.active
        /\ call_subscriptions' = o.hub.subscriptions
        /\ unsubscribed' = o.hub.dropped

\* the sets of the manager as they are now
HubNow == HubState(active_connections, call_subscriptions, unsubscribed)

\* task p makes a publish call: it becomes the latest one in started
Called(p) ==
    /\ publish[p].pc \in {"idle", "done"}
    /\ started' = Append(SelectSeq(started, LAMBDA t : t # p), p)

\* the event of an emit_* helper: its type, the call it is about and the
\* room name it is published under as well
Message(type, call_id, room_name) ==
    [type |-> type, call_id |-> call_id, room_name |-> room_name]

\* ConnectionManager.broadcast_to_call, up to its first send or its return
BroadcastToCall(p, call_id) ==
    /\ Called(p)
    /\ Run(p, StartBroadcastToCall([IdleFrame EXCEPT !.call_id = call_id],
                                   HubNow))
    /\ UNCHANGED <<avars, rvars, xvars>>

\* ConnectionManager.broadcast (emit_call_started, emit_call_status), up to
\* its first send or its return
Broadcast(p) ==
    /\ Called(p)
    /\ Run(p, ContinueBroadcast(
                 [IdleFrame EXCEPT !.kind = "all",
                                   !.subscribers = active_connections,
                                   !.stayed = active_connections],
                 HubNow))
    /\ UNCHANGED <<avars, rvars, xvars>>

\* ConnectionManager.emit_transcript_update, and with the same body
\* emit_wellbeing_update, emit_profile_update and emit_concern_detected, up
\* to the first send or the return
EmitTranscriptUpdate(p, call_id, room_name) ==
    /\ Called(p)
    /\ Run(p, StartBroadcastToCall(
                 [IdleFrame EXCEPT !.call_id = call_id,
                                   !.room_name = room_name,
                                   !.message = Some(Message("transcript_update",
                                                            call_id, room_name))],
                 HubNow))
    /\ UNCHANGED <<avars, rvars, xvars>>

\* ConnectionManager.emit_call_started, and with the same body
\* emit_call_status, up to the first send or the return
EmitCallStarted(p, call_id) ==
    /\ Called(p)
    /\ Run(p, ContinueBroadcast(
                 [IdleFrame EXCEPT !.kind = "all",
                                   !.subscribers = active_connections,
                                   !.stayed = active_connections,
                                   !.message = Some(Message("call_started",
                                                            call_id, None))],
                 HubNow))
    /\ UNCHANGED <<avars, rvars, xvars>>

\* faulty variant: the event is published with broadcast
EmitCallEnded_Off(p, call_id) ==
    /\ Called(p)
    /\ Run(p, ContinueBroadcast(
                 [IdleFrame EXCEPT !.kind = "all",
                                   !.subscribers = active_connections,
                                   !.stayed = active_connections,
                                   !.message = Some(Message("call_ended",
                                                            call_id, None))],
                 HubNow))
    /\ UNCHANGED <<avars, rvars, xvars>>

\* ConnectionManager.emit_call_ended, and with the same body
\* emit_biometric_update, emit_village_action_started,
\* emit_village_action_update and emit_timer_update, up to the first send or
\* the return
EmitCallEnded(p, call_id) ==
    /\ Called(p)
    /\ Run(p, StartBroadcastToCall(
                 [IdleFrame EXCEPT !.call_id = call_id,
                                   !.message = Some(Message("call_ended",
                                                            call_id, None))],
                 HubNow))
    /\ UNCHANGED <<avars, rvars, xvars>>

\* the loop the suspended coroutine goes on with
Resume(frame, hub) ==
    IF frame.kind = "all"
    THEN ContinueBroadcast(frame, hub)
    ELSE ContinueBroadcastToCall(frame, hub)

\* lines 56 and 84: the send the task is suspended in completes
SendSucceeds(p) ==
    /\ publish[p].pc = "sending"
    /\ Run(p, Resume(publish[p], HubNow))
    /\ UNCHANGED started
    /\ UNCHANGED <<avars, rvars, xvars>>

\* lines 56-59 and 84-89: the send the task is suspended in raises
SendRaises(p) ==
    /\ publish[p].pc = "sending"
    /\ Run(p, Resume(HandleSendError(
                        [publish[p] EXCEPT
                            !.failed = @ \cup {publish[p].connection[1]}]),
                     HubNow))
    /\ UNCHANGED started
    /\ UNCHANGED <<avars, rvars, xvars>>

\* lines 56 and 84: the send the task is suspended in does not complete;
\* send_json is awaited without a timeout
SendStalls(p) ==
    /\ publish[p].pc = "sending"
    /\ publish' = [publish EXCEPT ![p].pc = "stalled"]
    /\ UNCHANGED <<active_connections, call_subscriptions, unsubscribed,
                   started>>
    /\ UNCHANGED <<avars, rvars, xvars>>

\* call-scoped publishes by one task
NextHub ==
    \/ \E w \in Handles : Connect(w)
    \/ \E w \in Handles : Disconnect(w)
    \/ \E w \in Handles, k \in Keys : SubscribeToCall(w, k)
    \/ \E p \in Publishers, k \in Keys : BroadcastToCall(p, k)
    \/ \E p \in Publishers : SendSucceeds(p)
    \/ \E p \in Publishers : SendRaises(p)

\* publishes of both kinds by one task, with sends that do not complete
NextPublish ==
    \/ \E w \in Handles : Connect(w)
    \/ \E w \in Handles : Disconnect(w)
    \/ \E w \in Handles : SubscribeToCall(w, "C1")
    \/ \E p \in Publishers : BroadcastToCall(p, "C1")
    \/ \E p \in Publishers : Broadcast(p)
    \/ \E p \in Publishers : SendSucceeds(p)
    \/ \E p \in Publishers : SendRaises(p)
    \/ \E p \in Publishers : SendStalls(p)

\* the room names emit_* is called with
RoomNames == {None} \cup {Some(k) : k \in Keys}

\* events published under a call id and a room name by one task
NextEmit ==
    \/ \E w \in Handles : Connect(w)
    \/ \E w \in Handles, k \in Keys : SubscribeToCall(w, k)
    \/ \E p \in Publishers, k \in Keys, room_name \in RoomNames :
          EmitTranscriptUpdate(p, k, room_name)
    \/ \E p \in Publishers : SendSucceeds(p)

\* the connections of the runs with two publishing tasks
Viewers == {"w1", "w2"}

\* events of every kind published by one task
NextScoped ==
    \/ \E w \in Viewers : Connect(w)
    \/ \E w \in Viewers : Disconnect(w)
    \/ \E w \in Viewers, k \in Keys : SubscribeToCall(w, k)
    \/ \E p \in Publishers, k \in Keys : EmitCallStarted(p, k)
    \/ \E p \in Publishers, k \in Keys : EmitCallEnded(p, k)
    \/ \E p \in Publishers, k \in Keys, room_name \in RoomNames :
          EmitTranscriptUpdate(p, k, room_name)
    \/ \E p \in Publishers : SendSucceeds(p)
    \/ \E p \in Publishers : SendRaises(p)

\* call-scoped publishes made by two tasks
NextConcurrent ==
    \/ \E w \in Viewers : Connect(w)
    \/ \E w \in Viewers : SubscribeToCall(w, "C1")
    \/ \E p \in Tasks : BroadcastToCall(p, "C1")
    \/ \E p \in Tasks : SendSucceeds(p)

(***************************************************************************)
(* Calls of _match_village_member                                          *)
(***************************************************************************)
\* the longest roster
MaxRoster == 2

\* the ids of the roster members, by position
MemberIds == <<"A", "B", "C", "D">>

\* the roles rosters are drawn from (VillageMember.role)
Roles == {"family", "neighbor", "medical", "volunteer", "service"}

\* the action types of the suggestions: the keys of role_priority and one
\* that is none of them
ActionTypes ==
    {"call_family", "call_medical", "call_neighbor", "call_volunteer",
     "send_card"}

\* suggestion.get("suggested_contact", "")
Hints == {"", "daughter"}

\* what the i-th member of a roster is created from
MemberData(i, role, available) ==
    [id |-> MemberIds[i], name |-> MemberIds[i], role |-> role,
     relationship |-> "friend", phone |-> "+1555", available |-> available]

Rosters ==
    UNION {{[i \in 1..n |-> MemberData(i, f[i][1], f[i][2])] :
               f \in [1..n -> Roles \X BOOLEAN]} : n \in 0..MaxRoster}

\* Elder(..., village=[VillageMember(**data) for data in roster])
ElderWith(data) ==
    [id |-> "e3", name |-> "Rose", typical_mood |-> "calm",
     village |-> [i \in 1..Len(data) |-> VillageMember(data[i])]]

\* no call of _match_village_member has been made
InitNoMatch ==
    /\ roster = <<>>
    /\ action_type = ""
    /\ suggested_contact = ""
    /\ called = FALSE
    /\ matched = Return(None)

\* the arguments of a call of _match_village_member
MatchArguments ==
    /\ roster \in Rosters
    /\ action_type \in ActionTypes
    /\ suggested_contact \in Hints
    /\ called = FALSE
    /\ matched = Return(None)

\* self._match_village_member(elder, action_type, suggested_contact)
MatchVillageMemberCall ==
    /\ ~called
    /\ called' = TRUE
    /\ matched' = MatchVillageMember(ElderWith(roster), action_type,
                                     suggested_contact)
    /\ UNCHANGED <<roster, action_type, suggested_contact>>
    /\ UNCHANGED <<avars, hvars, xvars>>

NextMatch == MatchVillageMemberCall

\* the suggestion of the provider's answer that names the action type and
\* the contact
SuggestionOf(type, contact) ==
    [action_type |-> type, urgency |-> "immediate", reason |-> "lonely",
     suggested_contact |-> contact]

\* self._suggest_village_actions([suggestion], elder); matched is its outcome
SuggestVillageActionsCall ==
    /\ ~called
    /\ called' = TRUE
    /\ matched' = SuggestVillageActions(
                      <<SuggestionOf(action_type, suggested_contact)>>,
                      ElderWith(roster))
    /\ UNCHANGED <<roster, action_type, suggested_contact>>
    /\ UNCHANGED <<avars, hvars, xvars>>

NextSuggest == SuggestVillageActionsCall

(***************************************************************************)
(* The call records: start_call, save_call_data, save_biomarkers and the   *)
(* agent's save at shutdown                                                *)
(***************************************************************************)
\* the rows of table "elderly", by id
Elderly == [e1 |-> [name |-> "Margaret", phone_number |-> "+1555"]]

\* the ids a request may name: one of the table and one that is not in it
ElderlyIds == {"e1", "e9"}

\* the room names uuid4 yields, in the order they are handed out, and a room
\* name no call record has
RoomOrder == <<"r1", "r2">>
Rooms == {RoomOrder[i] : i \in DOMAIN RoomOrder}
UnknownRooms == {"r9"}

\* the call id made together with the room name
CallIdOf == [r1 |-> "id1", r2 |-> "id2"]

\* what a client passes to save_call_data and save_biomarkers, and what the
\* agent has collected at shutdown
Transcripts == {"t1", "t2"}
Summaries == {None, Some("s1")}
BiomarkerDicts == {"b1"}
\* the duration the agent may measure, in tenths of a second
Durations == {15}

\* f"Call lasted {duration:.1f} seconds with {len(transcript)} messages
\* exchanged.", where transcript t1 has one message and t2 has two
AgentSummary(duration, transcript) ==
    IF duration = 15
    THEN (IF transcript = "t1"
          THEN "Call lasted 1.5 seconds with 1 messages exchanged."
          ELSE "Call lasted 1.5 seconds with 2 messages exchanged.")
    ELSE "Call lasted some other time."

\* HTTPException(status_code=..., detail=...)
HTTPException(status_code, detail) ==
    [raised |-> TRUE, exc |-> "HTTPException",
     status_code |-> status_code, detail |-> detail]

\* the two outer except clauses of an endpoint: an HTTPException passes,
\* any other exception becomes HTTPException(500)
ExceptEndpoint(outcome) ==
    IF outcome.raised /\ outcome.exc # "HTTPException"
    THEN HTTPException(500, outcome.exc) ELSE outcome

\* the status code the client sees
StatusCode(outcome) == IF outcome.raised THEN outcome.status_code ELSE 200

\* .single().execute() on the rows a query matches: the row when there is
\* exactly one; with none the client raises APIError, or yields no data
Single(rows) ==
    IF Cardinality(rows) = 1
    THEN {Return(Some(CHOOSE r \in rows : TRUE))}
    ELSE {Raise("APIError"), Return(None)}

\* .update(changes).eq(field, value).execute()
Update(table, changes, field, value) ==
    [k \in DOMAIN table |->
        IF table[k][field] = value
        THEN [f \in DOMAIN table[k] |->
                 IF f \in DOMAIN changes THEN changes[f] ELSE table[k][f]]
        ELSE table[k]]

\* .insert(call_data).execute(); the columns call_data leaves out are null
Insert(table, call_data) ==
    [k \in DOMAIN table \cup {call_data.room_name} |->
        IF k = call_data.room_name
        THEN [id |-> call_data.id,
              elderly_id |-> call_data.elderly_id,
              room_name |-> call_data.room_name,
              status |-> call_data.status,
              started_at |-> call_data.started_at,
              ended_at |-> None,
              duration_seconds |-> None,
              recording_path |-> None,
              transcript |-> None,
              summary |-> None,
              biomarkers |-> None]
        ELSE table[k]]

\* the rows of a table that have the value in the field
Select(table, field, value) ==
    {table[k] : k \in {j \in DOMAIN table : table[j][field] = value}}

\* uuid4: a room name no call record has yet
FreshRooms(table) ==
    LET unused == {i \in DOMAIN RoomOrder : RoomOrder[i] \notin DOMAIN table}
    IN IF unused = {} THEN {}
       ELSE {RoomOrder[CHOOSE i \in unused : \A j \in unused : i <= j]}

\* no invocation of start_call has made this room
NoStartCall ==
    [pc |-> "none", elderly_id |-> "", call_id |-> "", created |-> FALSE,
     egress_failed |-> FALSE]

\* no reply was produced by the step
NoReply ==
    [op |-> "none", known |-> TRUE, room_name |-> None, status_code |-> 200,
     recording |-> None]

\* the environment of the process: ENABLE_RECORDING, and whether the four
\* S3 settings are all there
Environs == [enable_recording : BOOLEAN, s3_configured : BOOLEAN]

InitCalls ==
    /\ calls_table = EmptyDict
    /\ start_calls = [r \in Rooms |-> NoStartCall]
    /\ placed = {}
    /\ shutdown_saved = {}
    /\ copy_tasks = {}
    /\ reply = NoReply
    /\ environ \in {e \in Environs : e.enable_recording \/ ~e.s3_configured}

\* the database and the endpoints are not in use
InitNoCalls ==
    /\ calls_table = EmptyDict
    /\ start_calls = [r \in Rooms |-> NoStartCall]
    /\ placed = {}
    /\ shutdown_saved = {}
    /\ copy_tasks = {}
    /\ reply = NoReply
    /\ environ = [enable_recording |-> FALSE, s3_configured |-> FALSE]

\* the reply of start_call
StartCallReply(known, room_name, outcome) ==
    [op |-> "start_call", known |-> known, room_name |-> room_name,
     status_code |-> StatusCode(outcome),
     recording |-> IF outcome.raised THEN None ELSE ValueOf(outcome).recording]

\* lines 116-164: start_call up to the await of create_sip_participant
StartCall(elderly_id) ==
    /\ \E elderly_response \in
            Single({[id |-> k] : k \in {j \in DOMAIN Elderly : j = elderly_id}}) :
        LET looked_up ==
                IF elderly_response.raised THEN elderly_response
                ELSE IF ValueOf(elderly_response) = None
                THEN HTTPException(404, "Elderly person not found")
                ELSE elderly_response
        IN IF looked_up.raised
           THEN /\ reply' = StartCallReply(elderly_id \in DOMAIN Elderly, None,
                                           ExceptEndpoint(looked_up))
                /\ UNCHANGED <<calls_table, start_calls, placed>>
           ELSE \E room_name \in FreshRooms(calls_table) :
                LET call_id == CallIdOf[room_name]
                    call_data == [id |-> call_id,
                                  elderly_id |-> elderly_id,
                                  room_name |-> room_name,
                                  status |-> "ringing",
                                  started_at |-> Some("utcnow")]
                IN /\ calls_table' = Insert(calls_table, call_data)
                   /\ start_calls' = [start_calls EXCEPT ![room_name] =
                          [pc |-> "create_sip_participant",
                           elderly_id |-> elderly_id,
                           call_id |-> call_id,
                           created |-> FALSE,
                           egress_failed |-> FALSE]]
                   /\ placed' = placed \cup {room_name}
                   /\ reply' = NoReply
    /\ UNCHANGED <<shutdown_saved, copy_tasks, environ>>
    /\ UNCHANGED <<avars, hvars, rvars, pvars, dvars>>

\* lines 259-272: the status update, the response, the finally clause; or,
\* when the try block has raised, lines 270-280
FinishStartCall(table, room_name, created, egress_failed, outcome) ==
    LET frame == start_calls[room_name]
        finished == IF outcome.raised THEN ExceptEndpoint(outcome)
                    ELSE Return([room_name |-> room_name,
                                 call_id |-> frame.call_id,
                                 recording |-> Some(ValueOf(outcome))])
    IN /\ calls_table' = IF outcome.raised THEN table
                   ELSE Update(table, [status |-> "in_progress"],
                               "id", frame.call_id)
       /\ start_calls' = [start_calls EXCEPT ![room_name].pc = "returned",
                                             ![room_name].created = created,
                                             ![room_name].egress_failed = egress_failed]
       /\ reply' = StartCallReply(TRUE, Some(room_name), finished)

\* lines 164-256 when create_sip_participant returns
SipParticipantCreated(room_name) ==
    /\ start_calls[room_name].pc = "create_sip_participant"
    /\ IF environ.enable_recording /\ environ.s3_configured
       THEN /\ start_calls' = [start_calls EXCEPT
                  ![room_name].pc = "start_room_composite_egress",
                  ![room_name].created = TRUE]
            /\ reply' = NoReply
            /\ UNCHANGED calls_table
       ELSE FinishStartCall(calls_table, room_name, TRUE, FALSE,
               Return([status |-> "disabled",
                       reason |-> IF environ.enable_recording
                                  THEN "S3 not configured"
                                  ELSE "ENABLE_RECORDING=false"]))
    /\ UNCHANGED <<placed, shutdown_saved, copy_tasks, environ>>
    /\ UNCHANGED <<avars, hvars, rvars, pvars, dvars>>

\* line 164 raises: lines 270-280
SipParticipantFails(room_name) ==
    /\ start_calls[room_name].pc = "create_sip_participant"
    /\ FinishStartCall(calls_table, room_name, FALSE, FALSE, Raise("SIPError"))
    /\ UNCHANGED <<placed, shutdown_saved, copy_tasks, environ>>
    /\ UNCHANGED <<avars, hvars, rvars, pvars, dvars>>

\* lines 243-248: recording_info, read from egress_info, a name that is
\* bound only when line 221 has returned
RecordingInfo(egress) ==
    IF egress.raised THEN Raise("UnboundLocalError")
    ELSE Return([status |-> "started", egress_id |-> ValueOf(egress),
                 recording_path |-> "recordings/file"])

\* faulty variant: the failure of the recording block is not caught
ExceptRecording_Off(outcome) == outcome

\* lines 252-254: except Exception around the recording block
ExceptRecording(outcome) ==
    IF outcome.raised
    THEN Return([status |-> "failed", error |-> outcome.exc])
    ELSE outcome

\* lines 221-272 when start_room_composite_egress has finished, by
\* returning or by raising
EgressFinished(room_name, egress) ==
    /\ start_calls[room_name].pc = "start_room_composite_egress"
    /\ LET stored == Update(calls_table, [recording_path |-> Some("recordings/file")],
                            "id", start_calls[room_name].call_id)
       IN FinishStartCall(stored, room_name, TRUE, egress.raised,
                          ExceptRecording(RecordingInfo(egress)))
    /\ copy_tasks' = copy_tasks \cup {room_name}
    /\ UNCHANGED <<placed, shutdown_saved, environ>>
    /\ UNCHANGED <<avars, hvars, rvars, pvars, dvars>>

EgressStarted(room_name) == EgressFinished(room_name, Return("egress_id"))

EgressFails(room_name) == EgressFinished(room_name, Raise("EgressError"))

\* copy_recording_to_supabase_storage, when the download and the upload
\* have succeeded
CopyRecordingToSupabaseStorage(room_name) ==
    /\ room_name \in copy_tasks
    /\ copy_tasks' = copy_tasks \ {room_name}
    /\ calls_table' = Update(calls_table,
                       [recording_path |-> Some("audio_files/recordings/file")],
                       "room_name", room_name)
    /\ reply' = NoReply
    /\ UNCHANGED <<start_calls, placed, shutdown_saved, environ>>
    /\ UNCHANGED <<avars, hvars, rvars, pvars, dvars>>

\* the reply of save_call_data and save_biomarkers
SaveReply(op, room_name, outcome) ==
    [op |-> op, known |-> room_name \in DOMAIN calls_table,
     room_name |-> Some(room_name),
     status_code |-> StatusCode(outcome), recording |-> None]

\* lines 295-298 and 883-886: the call is looked up by its room name
FindCall(call_response) ==
    IF call_response.raised THEN call_response
    ELSE IF ValueOf(call_response) = None
    THEN HTTPException(404, "Call not found")
    ELSE call_response

\* save_call_data(room_name, transcript, summary)
SaveCallData(room_name, transcript, summary) ==
    /\ \E call_response \in Single(Select(calls_table, "room_name", room_name)) :
        LET found == FindCall(call_response)
            updates == IF summary # None /\ summary[1] # ""
                       THEN [transcript |-> Some(transcript),
                             status |-> "completed",
                             summary |-> summary]
                       ELSE [transcript |-> Some(transcript),
                             status |-> "completed"]
        IN /\ calls_table' = IF found.raised THEN calls_table
                       ELSE Update(calls_table, updates, "room_name", room_name)
           /\ reply' = SaveReply("save_call_data", room_name,
                                 ExceptEndpoint(found))
    /\ UNCHANGED <<start_calls, placed, shutdown_saved, copy_tasks, environ>>
    /\ UNCHANGED <<avars, hvars, rvars, pvars, dvars>>

\* save_biomarkers(room_name, biomarkers)
SaveBiomarkers(room_name, biomarkers) ==
    /\ \E call_response \in Single(Select(calls_table, "room_name", room_name)) :
        LET found == FindCall(call_response)
        IN /\ calls_table' = IF found.raised THEN calls_table
                       ELSE Update(calls_table, [biomarkers |-> Some(biomarkers)],
                                   "room_name", room_name)
           /\ reply' = SaveReply("save_biomarkers", room_name,
                                 ExceptEndpoint(found))
    /\ UNCHANGED <<start_calls, placed, shutdown_saved, copy_tasks, environ>>
    /\ UNCHANGED <<avars, hvars, rvars, pvars, dvars>>

\* save_transcript_on_shutdown of the agent in the room, lines 259-274: it
\* runs once, when the session of a room that was created ends
SaveTranscriptOnShutdown(room_name, transcript, duration) ==
    /\ start_calls[room_name].created
    /\ room_name \notin shutdown_saved
    /\ shutdown_saved' = shutdown_saved \cup {room_name}
    /\ calls_table' = Update(calls_table,
                       [transcript |-> Some(transcript),
                        summary |-> Some(AgentSummary(duration, transcript)),
                        ended_at |-> Some("call_end_time"),
                        duration_seconds |-> Some(duration \div 10),
                        status |-> "completed"],
                       "room_name", room_name)
    /\ reply' = [NoReply EXCEPT !.op = "shutdown", !.room_name = Some(room_name)]
    /\ UNCHANGED <<start_calls, placed, copy_tasks, environ>>
    /\ UNCHANGED <<avars, hvars, rvars, pvars, dvars>>

\* start_call, the call-data save endpoint and the agent's shutdown save
NextLifecycle ==
    \/ \E elderly_id \in ElderlyIds : StartCall(elderly_id)
    \/ \E room_name \in Rooms : SipParticipantCreated(room_name)
    \/ \E room_name \in Rooms : SipParticipantFails(room_name)
    \/ \E room_name \in Rooms : EgressStarted(room_name)
    \/ \E room_name \in Rooms : EgressFails(room_name)
    \/ \E room_name \in Rooms \cup UnknownRooms, transcript \in Transcripts,
          summary \in Summaries : SaveCallData(room_name, transcript, summary)
    \/ \E room_name \in Rooms, transcript \in Transcripts,
          duration \in Durations :
          SaveTranscriptOnShutdown(room_name, transcript, duration)

\* the endpoints and the background copy task
NextEndpoints ==
    \/ \E elderly_id \in ElderlyIds : StartCall(elderly_id)
    \/ \E room_name \in Rooms : SipParticipantCreated(room_name)
    \/ \E room_name \in Rooms : SipParticipantFails(room_name)
    \/ \E room_name \in Rooms : EgressStarted(room_name)
    \/ \E room_name \in Rooms : EgressFails(room_name)
    \/ \E room_name \in Rooms : CopyRecordingToSupabaseStorage(room_name)
    \/ \E room_name \in Rooms \cup UnknownRooms, transcript \in Transcripts,
          summary \in Summaries : SaveCallData(room_name, transcript, summary)
    \/ \E room_name \in Rooms \cup UnknownRooms, biomarkers \in BiomarkerDicts :
          SaveBiomarkers(room_name, biomarkers)

(***************************************************************************)
(* The escalation dispatcher and the events of its actions                 *)
(***************************************************************************)
\* the ids of the escalation actions
ActionIds == {"a1", "a2"}

\* the contact address of the resolved responder: none, or a phone number
ContactAddresses == {None, Some("+1555")}

\* the errors of the telephony collaborator, a timeout among them
TelephonyErrors == {"timeout", "trunk unreachable"}

\* the status an action ends in
TerminalStatuses == {"CONNECTED", "FAILED", "NO_ANSWER"}

\* the state machine of the status of an action: PENDING -> CALLING ->
\* RINGING -> terminal, FAILED from CALLING and RINGING on a telephony error
\* and from PENDING when the responder has no contact address
StateMachine ==
    {<<"PENDING", "CALLING">>, <<"CALLING", "RINGING">>,
     <<"RINGING", "CONNECTED">>, <<"RINGING", "FAILED">>,
     <<"RINGING", "NO_ANSWER">>, <<"CALLING", "FAILED">>,
     <<"PENDING", "FAILED">>}

\* the outcome text of the simulation fallback
CannedOutcome == "simulated call completed"

\* faulty variant: the event is published under the action id
EmitVillageActionStarted_Off(call_id, action) ==
    [call_id |-> action.id,
     message |-> [type |-> "village_action_started", data |-> action]]

\* emit_village_action_started: the arguments of its broadcast_to_call
EmitVillageActionStarted(call_id, action) ==
    [call_id |-> call_id,
     message |-> [type |-> "village_action_started", data |-> action]]

\* faulty variant: the event is published under the action id
EmitVillageActionUpdate_Off(call_id, action_id, status, response) ==
    [call_id |-> action_id,
     message |-> [type |-> "village_action_update",
                  data |-> [id |-> action_id, status |-> status]]]

\* emit_village_action_update: the arguments of its broadcast_to_call
EmitVillageActionUpdate(call_id, action_id, status, response) ==
    [call_id |-> call_id,
     message |-> [type |-> "village_action_update",
                  data |-> IF response # None /\ response[1] # ""
                           THEN [id |-> action_id, status |-> status,
                                 response |-> response[1]]
                           ELSE [id |-> action_id, status |-> status]]]

\* no escalation action has been dispatched
InitNoDispatch ==
    /\ village_actions = EmptyDict
    /\ emitted = <<>>

\* the action moves to a status, with an optional outcome text, and the
\* transition is broadcast under the originating call id
Transition(action_id, status, response, pc) ==
    LET action == village_actions[action_id] IN
    /\ village_actions' = [village_actions EXCEPT ![action_id] =
           [action EXCEPT !.status = status,
                          !.response = response,
                          !.history = Append(@, status),
                          !.pc = pc]]
    /\ emitted' = Append(emitted,
           EmitVillageActionUpdate(action.call_id, action_id, status, response))

\* dispatch(callId, suggestedAction): the action is created PENDING, once a
\* responder is resolved
Dispatch(action_id, call_id, contact, telephony_available) ==
    /\ action_id \notin DOMAIN village_actions
    /\ LET action == [id |-> action_id, call_id |-> call_id,
                      status |-> "PENDING", response |-> None]
       IN /\ village_actions' =
                 [k \in DOMAIN village_actions \cup {action_id} |->
                     IF k = action_id
                     THEN [id |-> action_id,
                           call_id |-> call_id,
                           status |-> "PENDING",
                           response |-> None,
                           contact |-> contact,
                           simulated |-> ~telephony_available,
                           error |-> None,
                           history |-> <<"PENDING">>,
                           pc |-> "created"]
                     ELSE village_actions[k]]
          /\ emitted' = Append(emitted, EmitVillageActionStarted(call_id, action))
    /\ UNCHANGED <<avars, hvars, rvars, pvars, cvars>>

\* a responder with no contact address: FAILED at once, no attempt made
NoContactAddress(action_id) ==
    /\ action_id \in DOMAIN village_actions
    /\ village_actions[action_id].pc = "created"
    /\ village_actions[action_id].contact = None
    /\ Transition(action_id, "FAILED", Some("no contact address"), "done")
    /\ UNCHANGED <<avars, hvars, rvars, pvars, cvars>>

\* CALLING, immediately before the telephony collaborator is invoked or the
\* simulated delay begins
StartCalling(action_id) ==
    /\ action_id \in DOMAIN village_actions
    /\ village_actions[action_id].pc = "created"
    /\ village_actions[action_id].contact # None
    /\ Transition(action_id, "CALLING", None,
                  IF village_actions[action_id].simulated
                  THEN "delay" ELSE "placeCall")
    /\ UNCHANGED <<avars, hvars, rvars, pvars, cvars>>

\* faulty variant: the wait that follows has no bound and no pickup ends it
PlaceCallReturns_Off(action_id) ==
    /\ action_id \in DOMAIN village_actions
    /\ village_actions[action_id].pc = "placeCall"
    /\ Transition(action_id, "RINGING", None, "unbounded wait")
    /\ UNCHANGED <<avars, hvars, rvars, pvars, cvars>>

\* placeCall returns: the outbound leg is established, RINGING
PlaceCallReturns(action_id) ==
    /\ action_id \in DOMAIN village_actions
    /\ village_actions[action_id].pc = "placeCall"
    /\ Transition(action_id, "RINGING", None, "pickup")
    /\ UNCHANGED <<avars, hvars, rvars, pvars, cvars>>

\* the action fails with a telephony error in its outcome text
TelephonyFails(action_id, at, error) ==
    /\ action_id \in DOMAIN village_actions
    /\ village_actions[action_id].pc = at
    /\ LET action == village_actions[action_id] IN
       /\ village_actions' = [village_actions EXCEPT ![action_id] =
              [action EXCEPT !.status = "FAILED",
                             !.response = Some(error),
                             !.error = Some([at |-> at, text |-> error]),
                             !.history = Append(@, "FAILED"),
                             !.pc = "done"]]
       /\ emitted' = Append(emitted,
              EmitVillageActionUpdate(action.call_id, action_id, "FAILED",
                                      Some(error)))
    /\ UNCHANGED <<avars, hvars, rvars, pvars, cvars>>

\* placeCall errors, or runs into its timeout: FAILED
PlaceCallErrors(action_id, error) == TelephonyFails(action_id, "placeCall", error)

\* the call is picked up within the bounded wait: CONNECTED
PickedUp(action_id) ==
    /\ action_id \in DOMAIN village_actions
    /\ village_actions[action_id].pc = "pickup"
    /\ Transition(action_id, "CONNECTED", Some("call connected"), "done")
    /\ UNCHANGED <<avars, hvars, rvars, pvars, cvars>>

\* the bounded wait ends without a pickup: NO_ANSWER
WaitExpires(action_id) ==
    /\ action_id \in DOMAIN village_actions
    /\ village_actions[action_id].pc = "pickup"
    /\ Transition(action_id, "NO_ANSWER", Some("no answer"), "done")
    /\ UNCHANGED <<avars, hvars, rvars, pvars, cvars>>

\* a telephony error while the call rings: FAILED
RingingFails(action_id, error) == TelephonyFails(action_id, "pickup", error)

\* simulation fallback: after the fixed delay, CONNECTED with the canned
\* outcome message
SimulatedDelayElapses(action_id) ==
    /\ action_id \in DOMAIN village_actions
    /\ village_actions[action_id].pc = "delay"
    /\ Transition(action_id, "CONNECTED", Some(CannedOutcome), "done")
    /\ UNCHANGED <<avars, hvars, rvars, pvars, cvars>>

\* the steps of the dispatcher for one action, after its creation
DispatcherStep(action_id) ==
    \/ NoContactAddress(action_id)
    \/ StartCalling(action_id)
    \/ PlaceCallReturns(action_id)
    \/ \E error \in TelephonyErrors : PlaceCallErrors(action_id, error)
    \/ PickedUp(action_id)
    \/ WaitExpires(action_id)
    \/ \E error \in TelephonyErrors : RingingFails(action_id, error)
    \/ SimulatedDelayElapses(action_id)

NextDispatch ==
    \/ \E action_id \in ActionIds, call_id \in Calls,
          contact \in ContactAddresses, telephony_available \in BOOLEAN :
          Dispatch(action_id, call_id, contact, telephony_available)
    \/ \E action_id \in ActionIds : DispatcherStep(action_id)

(***************************************************************************)
(* Calls of _parse_gemini_response                                         *)
(***************************************************************************)
\* the most whitespace at one place of a response text
MaxPad == 1

\* n pieces of whitespace
Pad(n) == [i \in 1..n |-> WS]

\* the opening fence, with or without the language tag
Openings == {<<FENCE, JSONWORD>>, <<FENCE>>}

\* the payloads: each JSON object, and a JSON value that is no object
PayloadPieces == ObjectPieces \cup {ARRAY}

\* _parse_gemini_response has not been called
InitNoParse ==
    /\ bare = <<>>
    /\ fenced = <<>>
    /\ parsed = None

\* a payload with whitespace around it, and the same inside a code fence
\* with whitespace around the fence
ParseArguments ==
    /\ \E piece \in PayloadPieces, opening \in Openings,
          inner \in (0..MaxPad) \X (0..MaxPad),
          outer \in (0..MaxPad) \X (0..MaxPad) :
          /\ bare = Pad(inner[1]) \o <<piece>> \o Pad(inner[2])
          /\ fenced = Pad(outer[1]) \o opening \o bare \o <<FENCE>>
                          \o Pad(outer[2])
    /\ parsed = None

\* self._parse_gemini_response(response.text), on each of the two texts
ParseGeminiResponseCall ==
    /\ parsed = None
    /\ parsed' = Some([bare |-> ParseGeminiResponse(Some(bare)),
                       fenced |-> ParseGeminiResponse(Some(fenced))])
    /\ UNCHANGED <<bare, fenced>>
    /\ UNCHANGED <<avars, hvars, rvars, cvars, dvars>>

NextParse == ParseGeminiResponseCall

(***************************************************************************)
(* Specifications                                                          *)
(***************************************************************************)
InitOthers == InitNoParse /\ InitNoCalls /\ InitNoDispatch

Init == InitAnalyzer /\ InitHub /\ InitNoMatch /\ InitOthers

SpecAnalyzer == Init /\ [][NextAnalyzer]_vars

SpecHub == Init /\ [][NextHub]_vars

SpecPublish == Init /\ [][NextPublish]_vars

SpecEmit == Init /\ [][NextEmit]_vars

SpecConcurrent == Init /\ [][NextConcurrent]_vars

InitMatch == InitAnalyzer /\ InitHub /\ MatchArguments /\ InitOthers

SpecScoped == Init /\ [][NextScoped]_vars

SpecSuggest == InitMatch /\ [][NextSuggest]_vars
SpecMatch == InitMatch /\ [][NextMatch]_vars

InitParse ==
    /\ InitAnalyzer /\ InitHub /\ InitNoMatch
    /\ ParseArguments /\ InitNoCalls /\ InitNoDispatch

SpecParse == InitParse /\ [][NextParse]_vars

InitStore ==
    /\ InitAnalyzer /\ InitHub /\ InitNoMatch
    /\ InitNoParse /\ InitCalls /\ InitNoDispatch

SpecLifecycle == InitStore /\ [][NextLifecycle]_vars

SpecEndpoints == InitStore /\ [][NextEndpoints]_vars

SpecDispatch == Init /\ [][NextDispatch]_vars

\* the delays of the dispatcher are fixed and its waits and external calls
\* are bounded by timeouts, so a step of an action that can be taken is
\* taken
FairDispatch == \A action_id \in ActionIds : WF_vars(DispatcherStep(action_id))

SpecDispatchFair == Init /\ [][NextDispatch]_vars /\ FairDispatch

(***************************************************************************)
(* Properties of the analyzer                                              *)
(***************************************************************************)
Min(a, b) == IF a < b THEN a ELSE b

\* the window a request for call c holds when n lines of life e have arrived
ExpectedWindow(c, e, n) ==
    [i \in 1..Min(n, 10) |->
        [speaker |-> Upper(SpeakerOf(n - Min(n, 10) + i)),
         text |-> <<c, e, n - Min(n, 10) + i>>]]

\* C1: with a configured provider, the 1st and 2nd submitted line of a call
\* cause no provider invocation and the 3rd and every later one cause exactly
\* one: after n submissions the call has caused max(0, n-2) invocations
\* (n counted since the call's context was created).
C1_ColdStartSuppression ==
    model => \A c \in Calls :
        ninv[c] = IF nsub[c] > 2 THEN nsub[c] - 2 ELSE 0

C1_Witness ==
    /\ model
    /\ \E c \in Calls : nsub[c] = 5 /\ ninv[c] = 3 /\ outstanding = {}

\* C2: the request built at the n-th submission (n >= 3) of a call holds
\* exactly the min(n, 10) most recently submitted lines of that call, in
\* arrival order, and no line of another call.
C2_RollingWindow ==
    /\ \A o \in outstanding :
          /\ nsub[o.call] >= 3
          /\ o.contents.transcript_text =
                ExpectedWindow(o.call, epoch[o.call], nsub[o.call])
    /\ (/\ last.op = "submit" /\ last.prompt # None
        /\ \A o \in outstanding : o.call # last.call) =>
          /\ nsub[last.call] >= 3
          /\ last.prompt[1].transcript_text =
                ExpectedWindow(last.call, epoch[last.call], nsub[last.call])

C2_Witness ==
    \E o \in outstanding :
        /\ nsub[o.call] > 10
        /\ Len(o.contents.transcript_text) = 10
        /\ \E c \in Calls \ {o.call} : nsub[c] > 0

\* the provider's answer is a structured object with exactly one concern, of
\* severity "high" and with action_required = true, and one suggested action
UrgentResponses == { Text(<<"obj_urgent">>) }

\* C3: when the provider's response to an eligible submission contains one
\* concern of severity "high" with action_required = true, the result carries
\* exactly one Concern for it and an escalation action for it is produced.
C3_UrgentConcernEscalates ==
    (/\ last.op = "submit"
     /\ last.response # None
     /\ last.response[1] \in UrgentResponses
     /\ last.prompt[1].name = "Margaret")
    => /\ ~last.raised
       /\ Len(last.result.concerns) = 1
       /\ Len(last.result.suggested_actions) = 1

\* responses that are not a parseable structured object
UnstructuredResponses ==
    { Text(<<PROSE, "obj_wellbeing", PROSE>>),
      Text(<<TRUNCATED>>),
      Text(<<ARRAY>>),
      Text(<<>>),
      [text |-> None] }

\* a step in which the provider's answer to call c comes back
AnswerStep(c) ==
    /\ \E o \in outstanding : o.call = c /\ outstanding' = outstanding \ {o}
    /\ last'.op = "submit"
    /\ last'.call = c

\* C4: a response that is not a parseable structured object yields the empty
\* result without raising and keeps the call's context, and the next
\* submission for that call invokes the provider again.
C4_UnparseableIsNoInsight ==
    [][\A c \in Calls :
         /\ (AnswerStep(c) /\ last'.response # None
                /\ last'.response[1] \in UnstructuredResponses)
            => /\ ~last'.raised
               /\ last'.result = EmptyResult
               /\ c \in DOMAIN analysis_context'
               /\ analysis_context' = analysis_context
         /\ (/\ last.op = "submit" /\ last.call = c /\ last.response # None
             /\ last.response[1] \in UnstructuredResponses
             /\ nsub'[c] = nsub[c] + 1)
            => /\ ninv'[c] = ninv[c] + 1
               /\ \E o \in outstanding' : o.call = c
      ]_vars

C4_Witness ==
    /\ last.op = "submit"
    /\ last.response # None
    /\ last.response[1] = Text(<<PROSE, "obj_wellbeing", PROSE>>)
    /\ last.result = EmptyResult
    /\ \E o \in outstanding : o.call = last.call

\* the context holds every line submitted to the call, in order
AllLinesKept(c) ==
    nsub[c] > 0 =>
        /\ c \in DOMAIN analysis_context
        /\ analysis_context[c].transcript_history =
              [k \in 1..nsub[c] |-> HistoryEntry(Line(c, epoch[c], k))]

\* C5: with no analysis client configured, or when the provider call raises,
\* every submission returns the empty result without raising and without a
\* provider result, and the submitted line is still appended to the context.
C5_DegradesToNoInsight ==
    /\ ~model =>
          /\ outstanding = {}
          /\ \A c \in Calls : ninv[c] = 0 /\ AllLinesKept(c)
          /\ last.op = "submit" =>
                /\ ~last.raised /\ ~last.invoked
                /\ last.response = None
                /\ last.result = EmptyResult
    /\ last.provider_raised =>
          /\ ~last.raised
          /\ last.response = None
          /\ last.result = EmptyResult
          /\ AllLinesKept(last.call)

C5_Witness ==
    /\ last.provider_raised
    /\ ninv[last.call] >= 2
    /\ Len(analysis_context[last.call].transcript_history) = nsub[last.call]

\* C6: while an invocation for one call is outstanding, a submission for
\* another call can still run to completion.
C6_OtherCallNotBlocked ==
    \A o \in outstanding : \A c \in Calls \ {o.call} :
        nsub[c] < MaxLines =>
            ENABLED AnalyzeTranscriptChunk(c, ElderOf[c])

C8_StalledInvocationEnds ==
    \A o \in outstanding :
        o.stalled =>
            ENABLED (NextAnalyzer /\ \A p \in outstanding' : p.call # o.call)

\* a step that is cleanup_call_context(c)
CleanupStep(c) ==
    /\ last'.op = "cleanup"
    /\ last'.call = c
    /\ outstanding = {}
    /\ \A d \in Calls : nsub'[d] <= nsub[d]

\* the lines of a window or a history all belong to life e of call c
OnlyLinesOf(lines, c, e) ==
    \A i \in 1..Len(lines) : lines[i].text[1] = c /\ lines[i].text[2] = e

\* C9: after cleanup_call_context(c) no context exists for c; lines submitted
\* before the cleanup are never part of a later window; a later submission
\* starts a fresh context that needs 3 new lines before the provider is
\* invoked; cleanup of an id without context changes nothing and does not
\* raise.
C9_CleanupDestroysContext ==
    [][\A c \in Calls :
         /\ CleanupStep(c) =>
               /\ ~last'.raised
               /\ c \notin DOMAIN analysis_context'
               /\ \A d \in Calls \ {c} :
                     /\ d \in DOMAIN analysis_context' <=> d \in DOMAIN analysis_context
                     /\ d \in DOMAIN analysis_context =>
                           analysis_context'[d] = analysis_context[d]
               /\ c \notin DOMAIN analysis_context =>
                     /\ analysis_context' = analysis_context
                     /\ outstanding' = outstanding
         /\ c \in DOMAIN analysis_context' =>
               OnlyLinesOf(analysis_context'[c].transcript_history, c, epoch'[c])
         /\ \A o \in outstanding' : o.call = c =>
               /\ OnlyLinesOf(o.contents.transcript_text, c, epoch'[c])
               /\ Len(analysis_context'[c].transcript_history) >= 3
               /\ Len(o.contents.transcript_text) =
                     Min(Len(analysis_context'[c].transcript_history), 10)
         /\ (c \notin DOMAIN analysis_context /\ c \in DOMAIN analysis_context') =>
               /\ Len(analysis_context'[c].transcript_history) = 1
               /\ outstanding' = {}
      ]_vars

C9_Witness ==
    \E o \in outstanding :
        /\ epoch[o.call] = 1
        /\ Len(analysis_context[o.call].transcript_history) = 3

(***************************************************************************)
(* Properties of the hub                                                   *)
(***************************************************************************)
\* C10: when the send to one subscriber of a call raises during
\* broadcast_to_call, the publish itself does not raise and every other
\* handle subscribed to that call when the publish started is still sent the
\* event.
C10_FailedSendDoesNotStopFanOut ==
    \A p \in Publishers :
        /\ ~publish[p].raised
        /\ (publish[p].pc = "done" /\ publish[p].failed # {}) =>
              /\ publish[p].subscribers \ publish[p].failed
                    \subseteq publish[p].attempted
              /\ publish[p].attempted = publish[p].subscribers

C10_Witness ==
    \E p \in Publishers :
        /\ publish[p].pc = "done"
        /\ Cardinality(publish[p].subscribers) = 3
        /\ Cardinality(publish[p].failed) = 1
        /\ publish[p].attempted = publish[p].subscribers
        /\ ~publish[p].raised

\* task p calls send_json on a connection in this step
SendStep(p) ==
    /\ publish'[p].pc = "sending"
    /\ <<publish'[p].pc, publish'[p].call_id, publish'[p].connection,
         publish'[p].attempted>>
          # <<publish[p].pc, publish[p].call_id, publish[p].connection,
              publish[p].attempted>>

\* the publish of task p returns in this step
ReturnStep(p) ==
    /\ publish[p].pc = "sending"
    /\ publish'[p].pc = "done"
    /\ ~publish'[p].raised

Pending(p) ==
    IF publish[p].kind = "all"
    THEN active_connections \ publish[p].attempted
    ELSE publish[p].remaining

\* C12: when the send to one subscriber does not complete, the publish can
\* still go on to send the event to each of its other subscribers.
C12_StalledSendDoesNotBlockOthers ==
    \A p \in Publishers :
        publish[p].pc = "stalled" =>
            \A h \in Pending(p) :
                ENABLED (NextPublish /\ h \in publish'[p].attempted)

\* C13: a publish does not raise, and does not end without a send to a
\* connection that has been in the set it iterates since it began, while
\* connect, disconnect and subscribe_to_call run during its suspensions.
C13_PublishSafeUnderMembershipChange ==
    \A p \in Publishers :
        /\ ~publish[p].raised
        /\ ~publish[p].missed

\* C14: the event of one emit_* call is sent to a connection at most once,
\* whatever keys the connection is subscribed under.
C14_AtMostOncePerEvent ==
    \A p \in Publishers : publish[p].twice = {}

\* the latest publish call of task p was made before that of task q
Before(p, q) ==
    \E i, j \in 1..Len(started) : i < j /\ started[i] = p /\ started[j] = q

\* C15: of two publishes for the same call id, the event of the one called
\* later is sent to a subscriber of both only after the event of the one
\* called first.
C15_FifoPerCall ==
    \A p, q \in Tasks :
        (Before(p, q) /\ publish[p].call_id = publish[q].call_id) =>
            \A h \in publish[q].attempted \cap publish[p].subscribers :
                h \in publish[p].attempted

\* task p calls broadcast_to_call(k, message) in this step
CallStep(p, k) ==
    /\ publish[p].pc \in {"idle", "done"}
    /\ publish'[p] # publish[p]
    /\ publish'[p].call_id = k

\* C16: broadcast_to_call for a call id without a subscription entry, or
\* with an empty subscriber set, returns in the step it is called in: it
\* does not raise, calls no send, and leaves active_connections and
\* call_subscriptions as they are.
C16_NoSubscribersIsNoOp ==
    [][\A p \in Publishers, k \in Keys :
          (/\ CallStep(p, k)
           /\ \/ k \notin DOMAIN call_subscriptions
              \/ call_subscriptions[k] = {}) =>
              /\ publish'[p].pc = "done"
              /\ ~publish'[p].raised
              /\ publish'[p].attempted = {}
              /\ active_connections' = active_connections
              /\ call_subscriptions' = call_subscriptions]_vars

C16_Witness ==
    \E p \in Publishers :
        /\ publish[p].pc = "done"
        /\ publish[p].call_id = "C2"
        /\ publish[p].subscribers = {}
        /\ "C2" \in DOMAIN call_subscriptions
        /\ call_subscriptions["C2"] = {}
        /\ "C1" \in DOMAIN call_subscriptions
        /\ call_subscriptions["C1"] # {}
        /\ active_connections # {}

(***************************************************************************)
(* Properties of the responder matching                                    *)
(***************************************************************************)
MinOf(S) == CHOOSE x \in S : \A y \in S : x <= y

\* the positions of the members that are available
AvailableMembers == {j \in 1..Len(roster) : roster[j].available}

\* the positions of the available members whose role contains the i-th
\* preferred role of the action type
AvailableWithRole(i) ==
    {j \in AvailableMembers :
        Contains(Lower(PreferredRoles(action_type)[i]), Lower(roster[j].role))}

\* the preferred roles that some available member has
RolesWithMatch ==
    {i \in 1..Len(PreferredRoles(action_type)) : AvailableWithRole(i) # {}}

\* the call returned the j-th member of the roster
ReturnedMember(j) ==
    /\ ~matched.raised
    /\ ValueOf(matched) # None
    /\ ValueOf(matched)[1].id = roster[j].id

\* C18: when some available member has a preferred role of the action
\* type, the call returns the first available member, in roster order, of
\* the earliest preferred role that an available member has.
C18_PreferredRoleFirst ==
    (called /\ RolesWithMatch # {}) =>
        ReturnedMember(MinOf(AvailableWithRole(MinOf(RolesWithMatch))))

\* C19: the call returns no member exactly when no member of the roster is
\* available, and a member it returns is an available member of the roster.
C19_NoneIffNoneAvailable ==
    called =>
        /\ ~matched.raised
        /\ (ValueOf(matched) = None) <=> (AvailableMembers = {})
        /\ ValueOf(matched) # None =>
              \E j \in AvailableMembers : ValueOf(matched)[1].id = roster[j].id

\* C20: when no available member has a preferred role of the action type
\* but some member is available, the call returns the first available
\* member in roster order, whatever its role.
C20_FallbackToFirstAvailable ==
    (called /\ RolesWithMatch = {} /\ AvailableMembers # {}) =>
        ReturnedMember(MinOf(AvailableMembers))

(***************************************************************************)
(* Properties of the response parsing and of the contexts                  *)
(***************************************************************************)
\* C29: a payload inside a markdown code fence, with or without the json
\* tag and with whitespace around the fence and the payload, parses to what
\* the payload parses to without the fence.
C29_FencedParsesAsBare ==
    parsed # None =>
        /\ ~parsed[1].fenced.raised
        /\ parsed[1].fenced = parsed[1].bare

C29_Witness ==
    /\ parsed # None
    /\ fenced[1] = WS
    /\ fenced[2] = FENCE
    /\ fenced[3] = JSONWORD
    /\ fenced[4] = WS
    /\ fenced[Len(fenced)] = WS
    /\ ValueOf(parsed[1].fenced).dict = Payloads["obj_urgent"]

\* the step is a submission of a line for call c
SubmitStep(c) == nsub'[c] = nsub[c] + 1

\* C30: a submission for a call changes the context of no other call and
\* creates a context for no other call; a call gets a context only by its
\* first submission and loses it only by cleanup_call_context.
C30_ContextsAreSeparate ==
    [][\A c \in Calls :
          /\ SubmitStep(c) =>
                \A d \in Calls \ {c} :
                    /\ d \in DOMAIN analysis_context'
                          <=> d \in DOMAIN analysis_context
                    /\ d \in DOMAIN analysis_context =>
                          analysis_context'[d] = analysis_context[d]
          /\ (c \in DOMAIN analysis_context' /\ c \notin DOMAIN analysis_context)
                => (SubmitStep(c) /\ nsub[c] = 0)
          /\ (c \in DOMAIN analysis_context /\ c \notin DOMAIN analysis_context')
                => CleanupStep(c)
          /\ (/\ c \in DOMAIN analysis_context
              /\ c \in DOMAIN analysis_context'
              /\ analysis_context'[c] # analysis_context[c])
                => SubmitStep(c)]_vars

C30_Witness ==
    /\ DOMAIN analysis_context = Calls
    /\ Len(analysis_context["C1"].transcript_history) = 3
    /\ Len(analysis_context["C2"].transcript_history) = 1
    /\ epoch["C2"] = 1

(***************************************************************************)
(* Properties of the call records                                          *)
(***************************************************************************)
\* how far a status is along ringing -> in_progress -> finished
StatusRank(status) ==
    CASE status = "ringing" -> 0
      [] status = "in_progress" -> 1
      [] OTHER -> 2

\* C21: whatever the interleaving of start_call, save_call_data and the
\* agent's shutdown save, no step moves the stored status of a call
\* backwards: not from completed to in_progress, not from anything to
\* ringing.
C21_StatusMovesForward ==
    [][\A r \in DOMAIN calls_table :
          StatusRank(calls_table'[r].status) >= StatusRank(calls_table[r].status)
      ]_vars

\* C22: a step that makes a call completed finds it in_progress.
C22_CompletedOnlyFromInProgress ==
    [][\A r \in DOMAIN calls_table :
          (/\ calls_table'[r].status = "completed"
           /\ calls_table[r].status # "completed")
              => calls_table[r].status = "in_progress"]_vars

\* the step is a completion signal for the call of room r: save_call_data
\* or the agent's shutdown save
CompletionSignal(r) ==
    /\ reply'.op \in {"save_call_data", "shutdown"}
    /\ reply'.room_name = Some(r)

\* the stored session of a call
Session(row) ==
    <<row.status, row.transcript, row.summary, row.ended_at,
      row.duration_seconds>>

\* C23: a completion signal for a call that is completed already does not
\* raise and leaves status, transcript, summary, end time and duration of
\* the call as they are.
C23_SecondCompletionIsNoOp ==
    [][\A r \in DOMAIN calls_table :
          (CompletionSignal(r) /\ calls_table[r].status = "completed")
              => /\ reply'.status_code = 200
                 /\ Session(calls_table'[r]) = Session(calls_table[r])]_vars

\* the step is a reply of one of the three endpoints to a request that names
\* an elderly person or a room
EndpointReply ==
    reply'.op \in {"start_call", "save_call_data", "save_biomarkers"}

\* C24: a request that names an unknown room or an unknown elderly person is
\* answered with 404, changes no call record and requests no outbound call;
\* a request that names a known one is not answered with 404.
C24_UnknownIsNotFound ==
    [][EndpointReply =>
          /\ ~reply'.known =>
                /\ reply'.status_code = 404
                /\ calls_table' = calls_table
                /\ placed' = placed
          /\ reply'.known => reply'.status_code # 404]_vars

\* C25: when start_room_composite_egress raises, after the SIP participant
\* was created, start_call still sets the call to in_progress and returns
\* 200 with the recording reported as failed.
C25_RecordingFailureDegrades ==
    [][\A r \in Rooms :
          (start_calls'[r].egress_failed /\ ~start_calls[r].egress_failed)
              => /\ r \in placed
                 /\ calls_table'[r].status = "in_progress"
                 /\ reply'.op = "start_call"
                 /\ reply'.room_name = Some(r)
                 /\ reply'.status_code = 200
                 /\ reply'.recording # None
                 /\ reply'.recording[1].status = "failed"]_vars

C25_Witness ==
    \E r \in Rooms :
        /\ start_calls[r].egress_failed
        /\ start_calls[r].pc = "returned"
        /\ reply.op = "start_call"
        /\ reply.room_name = Some(r)
        /\ reply.status_code = 200
        /\ reply.recording # None
        /\ reply.recording[1].status = "failed"
        /\ calls_table[r].status = "in_progress"

(***************************************************************************)
(* Properties of the escalation dispatcher                                 *)
(***************************************************************************)
\* the action has been dispatched and its status is terminal
Terminal(a) ==
    /\ a \in DOMAIN village_actions
    /\ village_actions[a].status \in TerminalStatuses

\* the action has been dispatched and has the status
HasStatus(a, s) ==
    /\ a \in DOMAIN village_actions
    /\ village_actions[a].status = s

EventsOf(a) == SelectSeq(emitted, LAMBDA m : m.message.data.id = a)

\* C27: an action whose placeCall has errored has walked exactly PENDING,
\* CALLING, FAILED, has the error as its outcome text, and the hub was
\* handed exactly three events for its id, with these statuses in this
\* order, each under the originating call id.
C27_PlaceCallErrorIsThreeEvents ==
    \A a \in DOMAIN village_actions :
        LET action == village_actions[a]
            events == EventsOf(a)
        IN (action.error # None /\ action.error[1].at = "placeCall") =>
              /\ action.history = <<"PENDING", "CALLING", "FAILED">>
              /\ action.response = Some(action.error[1].text)
              /\ Len(events) = 3
              /\ \A i \in 1..3 : events[i].call_id = action.call_id
              /\ \A i \in 1..3 :
                    events[i].message.data.status = action.history[i]
              /\ events[3].message.data.response = action.error[1].text

C27_Witness ==
    /\ "a1" \in DOMAIN village_actions
    /\ "a2" \in DOMAIN village_actions
    /\ village_actions["a1"].error = Some([at |-> "placeCall", text |-> "timeout"])
    /\ village_actions["a1"].call_id = "C2"
    /\ village_actions["a2"].call_id = "C1"
    /\ Len(emitted) > 3

\* C28: the statuses an action walks on the simulation fallback path are a
\* path of the state machine of the real path: each of its transitions is
\* one the real path allows.
C28_SimulationWalksTheSameMachine ==
    \A a \in DOMAIN village_actions :
        LET history == village_actions[a].history IN
        village_actions[a].simulated =>
            \A i \in 1..(Len(history) - 1) :
                <<history[i], history[i + 1]>> \in StateMachine

(***************************************************************************)
(* Properties of the analysis rounds                                       *)
(***************************************************************************)
\* the step ends an analysis round of call c with an answer of the provider
RoundStep(c) ==
    /\ \E o \in outstanding : o.call = c /\ outstanding' = outstanding \ {o}
    /\ last'.call = c
    /\ last'.invoked
    /\ last'.response # None

\* the concerns the provider's answer carries
ConcernsIn(response) ==
    LET analysis == ParseGeminiResponse(response.text) IN
    IF analysis.raised THEN <<>>
    ELSE LET concerns == AnalysisGet(ValueOf(analysis), "concerns", <<>>)
         IN IF concerns.raised THEN <<>> ELSE ValueOf(concerns)

\* C31: after an analysis round of a call in which k concerns were detected,
\* the detected-concern list of the call's context is longer by k, and so
\* holds the concerns of the earlier rounds of the call.
C31_ContextRecordsConcerns ==
    [][\A c \in Calls :
          (RoundStep(c) /\ c \in DOMAIN analysis_context) =>
              /\ c \in DOMAIN analysis_context'
              /\ Len(analysis_context'[c].detected_concerns)
                    = Len(analysis_context[c].detected_concerns)
                        + Len(ConcernsIn(last'.response[1]))]_vars

(***************************************************************************)
(* Properties of the hub: subscriber sets                                  *)
(***************************************************************************)
\* the subscriber set of a call id, empty when it has no entry
SubscriberSet(k) ==
    IF k \in DOMAIN call_subscriptions THEN call_subscriptions[k] ELSE {}

\* C32: broadcast_to_call(c, e) calls send only on connections that were in
\* the subscriber set of c when it was called: not on a connection that is
\* subscribed to other calls only, and not on one that subscribes to c while
\* the publish is suspended.
C32_OnlySubscribersAtStart ==
    [][\A p \in Publishers :
          /\ \A k \in Keys :
                CallStep(p, k) => publish'[p].subscribers = SubscriberSet(k)
          /\ (\A k \in Keys : ~CallStep(p, k)) =>
                publish'[p].subscribers = publish[p].subscribers
          /\ publish'[p].attempted \subseteq publish'[p].subscribers]_vars

C32_Witness ==
    \E p \in Publishers :
        /\ publish[p].pc = "sending"
        /\ publish[p].call_id = "C1"
        /\ publish[p].subscribers = {"w1"}
        /\ publish[p].remaining = {}
        /\ SubscriberSet("C1") = {"w1", "w2"}
        /\ SubscriberSet("C2") = {"w3"}
        /\ active_connections = Handles

\* the keys a connection is subscribed under
KeysOf(h) == {k \in DOMAIN call_subscriptions : h \in call_subscriptions[k]}

\* C33: disconnect(h) returns for every connection, also for one that is in
\* no set; after it h is in neither active_connections nor the subscriber
\* set of any call, every other connection is in the sets it was in, and
\* when h was in no set nothing has changed.
C33_DisconnectRemovesOnlyThatHandle ==
    /\ [](\A h \in Handles : ENABLED Disconnect(h))
    /\ [][\A h \in Handles :
            Disconnect(h) =>
              /\ h \notin active_connections'
              /\ DOMAIN call_subscriptions' = DOMAIN call_subscriptions
              /\ \A k \in DOMAIN call_subscriptions' :
                    /\ h \notin call_subscriptions'[k]
                    /\ call_subscriptions'[k] = call_subscriptions[k] \ {h}
              /\ active_connections' = active_connections \ {h}
              /\ (h \notin active_connections /\ KeysOf(h) = {}) =>
                    /\ active_connections' = active_connections
                    /\ call_subscriptions' = call_subscriptions]_vars

C33_Witness ==
    \E p \in Publishers :
        /\ publish[p].pc = "sending"
        /\ "w1" \in publish[p].subscribers
        /\ "w1" \notin active_connections
        /\ KeysOf("w1") = {}
        /\ "w2" \in active_connections
        /\ KeysOf("w2") = Keys
        /\ "w3" \notin active_connections
        /\ KeysOf("w3") = {"C1"}

(***************************************************************************)
(* Properties of the analyzer: the sections of one result                  *)
(***************************************************************************)
\* the four conversions of lines 105-123, each applied on its own to the
\* parsed response: wellbeing, concerns, profile facts, suggested actions
SectionOutcomes(call_id, elder, context, response_text) ==
    LET analysis == ParseGeminiResponse(response_text) IN
    IF analysis.raised THEN [i \in 1..4 |-> analysis]
    ELSE IF ~ValueOf(analysis).is_dict
    THEN [i \in 1..4 |-> AnalysisGet(ValueOf(analysis), "wellbeing", EmptyDict)]
    ELSE
      << CreateWellbeingAssessment(call_id,
            ValueOf(AnalysisGet(ValueOf(analysis), "wellbeing", EmptyDict))),
         DetectConcerns(call_id,
            ValueOf(AnalysisGet(ValueOf(analysis), "concerns", <<>>)), context),
         ExtractProfileFacts(call_id,
            ValueOf(AnalysisGet(ValueOf(analysis), "profile_updates", <<>>))),
         SuggestVillageActions(
            ValueOf(AnalysisGet(ValueOf(analysis), "suggested_actions", <<>>)),
            elder) >>

\* C34: the result of a round in which the provider answered is the empty
\* result when the conversion of any of the four sections of the answer
\* fails, and is otherwise made of the four conversions of that answer; the
\* round does not raise.
C34_ResultIsAllOrNothing ==
    [][\A c \in Calls :
          RoundStep(c) =>
            LET o == CHOOSE o \in outstanding :
                        o.call = c /\ outstanding' = outstanding \ {o}
                s == SectionOutcomes(c, o.elder,
                        IF c \in DOMAIN analysis_context
                        THEN analysis_context[c] ELSE NewContext,
                        last'.response[1].text)
            IN /\ ~last'.raised
               /\ IF \E i \in 1..4 : s[i].raised
                  THEN last'.result = EmptyResult
                  ELSE last'.result =
                         [wellbeing_update |-> ValueOf(s[1]),
                          concerns |-> ValueOf(s[2]),
                          profile_facts |-> ValueOf(s[3]),
                          suggested_actions |-> ValueOf(s[4])]]_vars

\* a round of C2 whose answer carries a wellbeing section that converts and a
\* concern that does not: nothing of the answer is in the result
C34_Witness ==
    /\ last.invoked
    /\ last.call = "C2"
    /\ last.response = Some(Text(<<"obj_urgent">>))
    /\ ~CreateWellbeingAssessment("C2", Payloads.obj_urgent.wellbeing).raised
    /\ DetectConcerns("C2", Payloads.obj_urgent.concerns, NewContext).raised
    /\ last.result = EmptyResult
    /\ ~last.raised

(***************************************************************************)
(* Properties of _suggest_village_actions                                  *)
(***************************************************************************)
\* C35: _suggest_village_actions returns; every action of its result
\* carries a member of the roster that is available,
\* and when the roster has no such member the result has no action.
C35_ActionsCarryAvailableResponder ==
    called =>
        /\ ~matched.raised
        /\ \A i \in 1..Len(ValueOf(matched)) :
               \E j \in AvailableMembers :
                   ValueOf(matched)[i].target_member = VillageMember(roster[j])
        /\ AvailableMembers = {} => ValueOf(matched) = <<>>

\* the outcome of the call does not change with the suggested contact
SameForEveryHint ==
    \A hint \in Hints :
        MatchVillageMember(ElderWith(roster), action_type, hint) = matched

\* C36: the call yields the same responder for every suggested contact, and
\* for an action type without preferred roles it returns the first
\* available member of the roster.
C36_HintIsIgnored ==
    called =>
        /\ SameForEveryHint
        /\ (PreferredRoles(action_type) = <<>> /\ AvailableMembers # {}) =>
              ReturnedMember(MinOf(AvailableMembers))

(***************************************************************************)
(* Properties of the hub: subscribers and connections                      *)
(***************************************************************************)
\* C37: in every reachable state each connection in the subscriber set of
\* any call is in active_connections.
C37_SubscribersAreActive ==
    \A k \in DOMAIN call_subscriptions :
        call_subscriptions[k] \subseteq active_connections

\* the connection is in active_connections or in the subscriber set of a
\* call: no disconnect has removed it since it was last added
Registered(h) == h \in active_connections \/ KeysOf(h) # {}

\* C38: a publish calls send_json only on a connection that is in one of
\* the sets of the hub at that moment; a connection that disconnect has
\* removed is not sent to, also not by a publish that was suspended in a
\* send to another connection when it was removed.
C38_NoSendAfterDisconnect ==
    [][\A p \in Publishers :
          SendStep(p) => Registered(publish'[p].connection[1])]_vars

(***************************************************************************)
(* Properties of the hub: who is sent the events of a call                 *)
(***************************************************************************)
\* the subscriber set of a key in a dict of subscriptions
SetOf(subscriptions, k) ==
    IF k \in DOMAIN subscriptions THEN subscriptions[k] ELSE {}

\* the event types that are published with broadcast
GlobalTypes == {"call_started", "call_status"}

\* C39 as stated: an event about call C is sent only to connections that
\* are in the subscriber set of C.
C39_OnlySubscribersAreSent ==
    [][\A p \in Publishers :
          (SendStep(p) /\ publish'[p].message # None) =>
              publish'[p].connection[1]
                  \in SetOf(call_subscriptions, publish'[p].message[1].call_id)]_vars

\* C39 amended: call_started and call_status are sent with broadcast to
\* connections of active_connections; every other event about call C is
\* sent with broadcast_to_call, under the id of C or under the room name
\* given with it, and only to connections of the copy of that key's
\* subscriber set, which is the set as it was when the loop began.
C39_GlobalOrScopedAtStart ==
    [][\A p \in Publishers :
          (SendStep(p) /\ publish'[p].message # None) =>
              LET f == publish'[p]
                  m == publish'[p].message[1]
                  h == publish'[p].connection[1]
              IN IF m.type \in GlobalTypes
                 THEN /\ f.kind = "all"
                      /\ h \in active_connections
                 ELSE /\ f.kind = "call"
                      /\ f.call_id = m.call_id \/ Some(f.call_id) = m.room_name
                      /\ h \in f.subscribers
                      /\ IF f.remaining \cup {h} = f.subscribers
                         THEN f.subscribers = SetOf(call_subscriptions', f.call_id)
                         ELSE /\ f.subscribers = publish[p].subscribers
                              /\ f.call_id = publish[p].call_id]_vars

\* call_started of C1 is being sent to a connection that is subscribed to
\* C2 only
C39_Witness ==
    \E p \in Publishers :
        /\ publish[p].pc = "sending"
        /\ publish[p].message = Some(Message("call_started", "C1", None))
        /\ publish[p].connection = Some("w1")
        /\ KeysOf("w1") = {"C2"}
        /\ "w1" \in active_connections

(***************************************************************************)
(* Properties of the call records: leaving ringing                         *)
(***************************************************************************)
\* C40: once start_call has returned for a call record it created, by a
\* reply or by an error, the record is not in status ringing any more: a
\* failure of create_sip_participant or of a later step has moved it on.
C40_RingingIsLeft ==
    \A room_name \in Rooms :
        (/\ start_calls[room_name].pc = "returned"
         /\ room_name \in DOMAIN calls_table) =>
            calls_table[room_name].status # "ringing"

====
